---------------------------- MODULE Spec2Model ----------------------------
(***************************************************************************)
(* Model of the RoboClaw motion-studio backend (src-tauri/src):            *)
(*   device.rs  CRC16 codec, response validator, transport, device driver  *)
(*                                                                         *)
(* Numbers.  TLC integers are 32-bit signed, which is exactly Rust's i32.  *)
(* A Rust u8/u16 is an integer in 0..255 / 0..65535.  A Rust u32 is kept   *)
(* as a pair <<hi, lo>> of 16-bit limbs (value = hi * 65536 + lo), so that *)
(* magnitudes >= 2^31 stay representable.                                  *)
(***************************************************************************)
EXTENDS Integers, Sequences, FiniteSets, TLC

VARIABLES
    codec,               \* one evaluation of a pure function: its inputs and outputs
    SIMULATION_ENABLED,  \* sim.rs: static SIMULATION_ENABLED (AtomicBool)
    ROBOCLAW,            \* device.rs: static ROBOCLAW, the Controller Handle
    device,              \* what the attached controller last stored (PID field bytes)
    call,                \* the last completed Driver call: request written, reply read, result
    SIM_STATE,           \* sim.rs: static SIM_STATE, the Simulation State
    lock,                \* the holder of the ROBOCLAW mutex and of the SIM_STATE mutex (0: free)
    thread,              \* each worker thread: the entry point it runs and where it is in it
    wire                 \* the serial channel: whose exchange is under way, and what went wrong

vars == <<codec, SIMULATION_ENABLED, ROBOCLAW, device, call, SIM_STATE, lock, thread, wire>>

(***************************************************************************)
(* Bounds of the model                                                     *)
(***************************************************************************)
\* longest byte sequence drawn for calc_crc / parse_response
MaxLen == 3

(***************************************************************************)
(* Bit and byte helpers (Rust integer operators)                           *)
(***************************************************************************)
Pow2(k) == 2 ^ k

\* bit of weight w (a power of two) of x, and x with that bit inverted
Bit(x, w) == (x \div w) % 2
ToggleBit(x, w) == IF Bit(x, w) = 1 THEN x - w ELSE x + w

\* Rust `a ^ b` on two u8
XorBit(a, b, w) == ((Bit(a, w) + Bit(b, w)) % 2) * w
BitXor8(a, b) ==
    XorBit(a, b, 1) + XorBit(a, b, 2) + XorBit(a, b, 4) + XorBit(a, b, 8)
    + XorBit(a, b, 16) + XorBit(a, b, 32) + XorBit(a, b, 64) + XorBit(a, b, 128)

\* bit k of byte b inverted (a single-bit line error)
FlipBit(b, k) == ToggleBit(b, Pow2(k))

\* Rust Result<_, String>; a panic (index out of bounds, overflow) is its own tag
Ok(v)    == [tag |-> "Ok",    val |-> v,    msg |-> ""]
Err(m)   == [tag |-> "Err",   val |-> <<>>, msg |-> m]
Panic(m) == [tag |-> "Panic", val |-> <<>>, msg |-> m]
NoResult == [tag |-> "None",  val |-> <<>>, msg |-> ""]

SeqsUpTo(S, n) == UNION {[1..k -> S] : k \in 0..n}

(***************************************************************************)
(* CRC16 codec: device.rs calc_crc                                         *)
(***************************************************************************)
\* x ^ 0x1021 on a u16: bits 12, 5 and 0 inverted
Xor1021(x) == ToggleBit(ToggleBit(ToggleBit(x, 4096), 32), 1)

\* x ^ 0x8005 on a u16: bits 15, 2 and 0 inverted
Xor8005(x) == ToggleBit(ToggleBit(ToggleBit(x, 32768), 4), 1)

\* a wrong generator polynomial (0x8005, CRC-16/ARC's) in the conditional XOR
crc_round_poly8005(crc) ==
    IF crc >= 32768 THEN Xor8005((crc * 2) % 65536) ELSE (crc * 2) % 65536

\* one round of the inner loop:
\* crc = if crc & 0x8000 != 0 { (crc << 1) ^ 0x1021 } else { crc << 1 }, in u16
crc_round(crc) ==
    IF crc >= 32768 THEN Xor1021((crc * 2) % 65536) ELSE (crc * 2) % 65536

\* for _ in 0..8 { ... }
RECURSIVE crc_rounds(_, _)
crc_rounds(crc, n) == IF n = 0 THEN crc ELSE crc_rounds(crc_round(crc), n - 1)

\* crc ^= (byte as u16) << 8, then the eight rounds
crc_byte(crc, byte) ==
    crc_rounds((BitXor8(crc \div 256, byte) * 256) + (crc % 256), 8)

\* for &byte in data { ... } from data[i] on (the test on next makes TLC evaluate
\* it before the recursive call, keeping the evaluation stack flat)
RECURSIVE crc_from(_, _, _)
crc_from(crc, data, i) ==
    IF i > Len(data) THEN crc
    ELSE LET next == crc_byte(crc, data[i])
         IN  IF next >= 0 THEN crc_from(next, data, i + 1) ELSE 0

\* pub fn calc_crc(data: &[u8]) -> u16, seed 0
calc_crc(data) == crc_from(0, data, 1)

\* (crc >> 8) as u8, (crc & 0xFF) as u8: the two bytes pushed after a packet
CrcBytes(crc) == <<crc \div 256, crc % 256>>

(***************************************************************************)
(* Response validator: device.rs parse_response                            *)
(***************************************************************************)
\* the received CRC read low byte first
parse_response_le(resp, addr, cmd) ==
    IF Len(resp) < 3 THEN Err("Response too short")
    ELSE LET data_len == Len(resp) - 2
             data == SubSeq(resp, 1, data_len)
             crc_received == resp[data_len + 2] * 256 + resp[data_len + 1]
             full_packet == <<addr, cmd>> \o data
             crc_calc == calc_crc(full_packet)
         IN  IF crc_calc # crc_received THEN Err("CRC mismatch") ELSE Ok(data)

\* only the low byte of the CRC compared
parse_response_lowbyte(resp, addr, cmd) ==
    IF Len(resp) < 3 THEN Err("Response too short")
    ELSE LET data_len == Len(resp) - 2
             data == SubSeq(resp, 1, data_len)
             crc_received == resp[data_len + 1] * 256 + resp[data_len + 2]
             full_packet == <<addr, cmd>> \o data
             crc_calc == calc_crc(full_packet)
         IN  IF crc_calc % 256 # crc_received % 256 THEN Err("CRC mismatch") ELSE Ok(data)

\* pub fn parse_response(resp: &[u8], addr: u8, cmd: u8) -> Result<&[u8], String>
parse_response(resp, addr, cmd) ==
    IF Len(resp) < 3 THEN Err("Response too short")
    ELSE LET data_len == Len(resp) - 2
             data == SubSeq(resp, 1, data_len)
             crc_received == resp[data_len + 1] * 256 + resp[data_len + 2]
             full_packet == <<addr, cmd>> \o data
             crc_calc == calc_crc(full_packet)
         IN  IF crc_calc # crc_received THEN Err("CRC mismatch") ELSE Ok(data)

\* A reply as the controller frames it: payload, then the CRC16 of
\* [address, command] ++ payload, high byte first (the Response of the wire protocol).
Frame(addr, cmd, payload) == payload \o CrcBytes(calc_crc(<<addr, cmd>> \o payload))

(***************************************************************************)
(* Rust integer conversions used by the driver                             *)
(***************************************************************************)
I32Min == (-2147483647) - 1

\* ((b0 as u32) << 24) | ((b1 as u32) << 16) | ((b2 as u32) << 8) | (b3 as u32), as limbs
u32_from_be(b, i) == <<(b[i] * 256) + b[i + 1], (b[i + 2] * 256) + b[i + 3]>>

\* `x as i32` for a u32 x: the same 32 bits read as two's complement
as_i32(u) == ((IF u[1] >= 32768 THEN u[1] - 65536 ELSE u[1]) * 65536) + u[2]

\* i32::from_be_bytes([b[i], b[i+1], b[i+2], b[i+3]])
i32_from_be_bytes(b, i) == as_i32(u32_from_be(b, i))

\* i16::from_be_bytes([b[i], b[i+1]]), also `(((hi as u16) << 8) | lo as u16) as i16`
i16_from_be_bytes(b, i) ==
    LET raw == (b[i] * 256) + b[i + 1]
    IN  IF raw >= 32768 THEN raw - 65536 ELSE raw

\* the bytes of v low byte first (to_le_bytes)
i32_to_le_bytes(v) ==
    <<v % 256, (v \div 256) % 256, (v \div 65536) % 256, (v \div 16777216) % 256>>

\* i32::to_be_bytes(v)
i32_to_be_bytes(v) ==
    <<(v \div 16777216) % 256, (v \div 65536) % 256, (v \div 256) % 256, v % 256>>

\* [((pwm >> 8) & 0xFF) as u8, (pwm & 0xFF) as u8] for an i16
i16_to_be_bytes(v) == <<(v \div 256) % 256, v % 256>>

Min(a, b) == IF a < b THEN a ELSE b
Clamp(v, lo, hi) == IF v < lo THEN lo ELSE IF v > hi THEN hi ELSE v

(***************************************************************************)
(* Controller Handle and transport: device.rs ROBOCLAW, send_serial_locked,*)
(* read_serial_locked, send_and_read                                       *)
(***************************************************************************)
\* Roboclaw { addr: 0x80, .. }
RoboclawAddr == 128

\* What one exchange meets on the channel: whether write_all succeeds, whether
\* read succeeds, and the bytes read (none: Ok(0), the 100 ms timeout).
IoWriteFails == [write_ok |-> FALSE, read_ok |-> TRUE, bytes |-> <<>>]
IoReadFails  == [write_ok |-> TRUE, read_ok |-> FALSE, bytes |-> <<>>]
IoReply(b)   == [write_ok |-> TRUE, read_ok |-> TRUE, bytes |-> b]

\* write_all's result not looked at
send_serial_locked_unchecked(roboclaw, io) ==
    IF roboclaw.port
    THEN IF io.write_ok THEN Ok(<<>>) ELSE Ok(<<>>)
    ELSE Err("Serial port not opened")

\* send_serial_locked: Err when no port is open, else port.write_all(data)
send_serial_locked(roboclaw, io) ==
    IF roboclaw.port
    THEN IF io.write_ok THEN Ok(<<>>) ELSE Err("write failed")
    ELSE Err("Serial port not opened")

\* read_serial_locked: one read into a 1024-byte buffer
read_serial_locked(roboclaw, io) ==
    IF roboclaw.port
    THEN IF ~io.read_ok THEN Err("Serial read error")
         ELSE IF Len(io.bytes) > 0 THEN Ok(io.bytes)
         ELSE Err("No data received (timeout)")
    ELSE Err("Serial port not opened")

\* send_and_read: the write, then (only if it succeeded) the read.
\* wrote: write_all was called with the whole request; res: the function's result.
send_and_read(data, roboclaw, io) ==
    LET sent == send_serial_locked(roboclaw, io)
    IN  [wrote |-> roboclaw.port,
         res   |-> IF sent.tag = "Ok" THEN read_serial_locked(roboclaw, io) ELSE sent]

\* The record kept of a Driver call.
Call(op, motor, args, cmd, req, x, result) ==
    [op |-> op, motor |-> motor, args |-> args, cmd |-> cmd,
     req |-> IF x.wrote THEN req ELSE <<>>, wrote |-> x.wrote,
     resp |-> IF x.res.tag = "Ok" THEN x.res.val ELSE <<>>,
     result |-> result]

NoCall ==
    [op |-> "none", motor |-> 0, args |-> <<>>, cmd |-> 0, req |-> <<>>, wrote |-> FALSE,
     resp |-> <<>>, result |-> NoResult]

\* ROBOCLAW.lock() fails once a thread has panicked while holding the guard
LockFailed(op, motor, args) ==
    [NoCall EXCEPT !.op = op, !.motor = motor, !.args = args,
                   !.result = Err("Failed to acquire lock")]

\* The attached controller: the PID field bytes last written to it, and the
\* parameter sets those writes were made from (<<>>: none yet).
DeviceInit == [vel |-> <<>>, pos |-> <<>>, vel_params |-> <<>>, pos_params |-> <<>>]

(***************************************************************************)
(* Simulation State, the two mutexes and the worker threads                *)
(***************************************************************************)
\* lib.rs: const SIMULATED_PORT, the reserved port name
SIMULATED_PORT == "SIMULATED"

\* sim.rs: SIM_STATE's initialiser (the command fields: open-loop speed byte, PWM
\* duty and mode flag of each motor)
SimStateInit ==
    [m1_speed |-> 64, m2_speed |-> 64, m1_pwm |-> 0, m2_pwm |-> 0,
     m1_mode_pwm |-> FALSE, m2_mode_pwm |-> FALSE]

\* both mutexes free
LockInit == [roboclaw |-> 0, sim |-> 0]

\* the worker threads (spawn_blocking tasks)
Threads == {1, 2}

\* A thread that runs nothing.
\*   exp, at        the experiment it runs and the place it has reached in it
\*   left, samples  loop iterations still to run, encoder samples collected (measure_qpps)
\*   applied        the step command has been sent (device step response)
\*   lock_failed, read_failed   a lock acquisition / a read failed during the experiment
\*   exp_result     what the experiment returned
\*   op, args, pc   the Driver operation it runs and the place it has reached in it
\*   flag           what that operation read from SIMULATION_ENABLED ("none": not read)
\*   sent, got      how its write_all and its read ended
\*   n_write, n_read  calls of write_all and of read it made on the channel
\*   result         what the operation returned
\*   stored         what its configure_port call stored to SIMULATION_ENABLED ("none": nothing)
\*   saved          what the experiment keeps across its loop (arguments, prev_pwm/prev_mode)
ThreadIdle ==
    [exp |-> "none", at |-> "idle", left |-> 0, samples |-> 0, applied |-> FALSE,
     lock_failed |-> FALSE, read_failed |-> FALSE, exp_result |-> NoResult,
     op |-> "none", args |-> <<>>, pc |-> "idle", flag |-> "none",
     sent |-> "none", got |-> "none", n_write |-> 0, n_read |-> 0,
     result |-> NoResult, stored |-> "none", saved |-> <<>>]

ThreadsInit == [t \in Threads |-> ThreadIdle]

\* no exchange under way on the channel, none ever disturbed
WireInit == [exchange |-> 0, interleaved |-> FALSE]

(***************************************************************************)
(* Device driver, Hardware branch: device.rs *_sync after the              *)
(* is_simulation_enabled() test                                            *)
(***************************************************************************)
\* the CRC taken before the speed byte is pushed
drive_simply_sync_early_crc(speed, motor_index, roboclaw, io) ==
    LET clamped == Min(speed, 127)
        cmd == IF motor_index = 1 THEN 6 ELSE 7
        data == <<roboclaw.addr, cmd, clamped>> \o CrcBytes(calc_crc(<<roboclaw.addr, cmd>>))
        x == send_and_read(data, roboclaw, io)
        result ==
            IF x.res.tag # "Ok" THEN x.res
            ELSE IF x.res.val[1] = 255 THEN Ok(<<>>) ELSE Err("Failed to drive motor")
    IN  Call("drive_simply", motor_index, <<speed>>, cmd, data, x, result)

\* drive_simply_sync(speed, motor_index)
drive_simply_sync(speed, motor_index, roboclaw, io) ==
    LET clamped == Min(speed, 127)
        cmd == IF motor_index = 1 THEN 6 ELSE 7
        body == <<roboclaw.addr, cmd, clamped>>
        data == body \o CrcBytes(calc_crc(body))
        x == send_and_read(data, roboclaw, io)
        result ==
            IF x.res.tag # "Ok" THEN x.res
            ELSE IF x.res.val[1] = 255 THEN Ok(<<>>) ELSE Err("Failed to drive motor")
    IN  Call("drive_simply", motor_index, <<speed>>, cmd, data, x, result)

\* drive_pwm_sync(pwm, motor_index)
drive_pwm_sync(pwm, motor_index, roboclaw, io) ==
    LET clamped == Clamp(pwm, -32767, 32767)
        cmd == IF motor_index = 1 THEN 32 ELSE 33
        body == <<roboclaw.addr, cmd>> \o i16_to_be_bytes(clamped)
        data == body \o CrcBytes(calc_crc(body))
        x == send_and_read(data, roboclaw, io)
        result ==
            IF x.res.tag # "Ok" THEN x.res
            ELSE IF x.res.val[1] = 255 THEN Ok(<<>>) ELSE Err("Failed to drive motor PWM")
    IN  Call("drive_pwm", motor_index, <<pwm>>, cmd, data, x, result)

\* The match arm of read_speed_sync on a validated payload.  overflow_checks is
\* the build's setting: `-(i32::MIN)` panics with it and wraps without it.
read_speed_decode(data, overflow_checks) ==
    IF Len(data) < 5 THEN Panic("index out of bounds")
    ELSE LET speed == u32_from_be(data, 1)
             status == data[5]
         IN  IF status = 0 THEN Ok(<<as_i32(speed)>>)
             ELSE IF status = 1
                  THEN IF as_i32(speed) = I32Min
                       THEN IF overflow_checks THEN Panic("attempt to negate with overflow")
                            ELSE Ok(<<I32Min>>)
                       ELSE Ok(<<-as_i32(speed)>>)
             ELSE Err("Invalid value")

\* read_speed_sync(motor_index)
read_speed_sync(motor_index, roboclaw, io, overflow_checks) ==
    LET cmd == IF motor_index = 1 THEN 18 ELSE 19
        data == <<roboclaw.addr, cmd>>
        x == send_and_read(data, roboclaw, io)
        result ==
            IF x.res.tag # "Ok" THEN x.res
            ELSE IF Len(x.res.val) = 0 THEN Err("The response is empty")
            ELSE LET parsed == parse_response(x.res.val, roboclaw.addr, cmd)
                 IN  IF parsed.tag = "Ok" THEN read_speed_decode(parsed.val, overflow_checks)
                     ELSE Err("Invalid response")
    IN  Call("read_speed", motor_index, <<>>, cmd, data, x, result)

\* The 20 named fields of read_all_status_sync, decoded from a payload of at
\* least 56 bytes (Rust result[k] is result[k + 1] here).
all_status_decode(result) ==
    [timertick    |-> u32_from_be(result, 1),
     errors       |-> u32_from_be(result, 5),
     temp1        |-> i16_from_be_bytes(result, 9),
     temp2        |-> i16_from_be_bytes(result, 11),
     main_batt    |-> i16_from_be_bytes(result, 13),
     logic_batt   |-> i16_from_be_bytes(result, 15),
     m1_pwm       |-> i16_from_be_bytes(result, 17),
     m2_pwm       |-> i16_from_be_bytes(result, 19),
     m1_current   |-> i16_from_be_bytes(result, 21),
     m2_current   |-> i16_from_be_bytes(result, 23),
     m1_encoder   |-> i32_from_be_bytes(result, 25),
     m2_encoder   |-> i32_from_be_bytes(result, 29),
     m1_speed     |-> i32_from_be_bytes(result, 33),
     m2_speed     |-> i32_from_be_bytes(result, 37),
     m1_ispeed    |-> i32_from_be_bytes(result, 41),
     m2_ispeed    |-> i32_from_be_bytes(result, 45),
     m1_speed_err |-> i16_from_be_bytes(result, 49),
     m2_speed_err |-> i16_from_be_bytes(result, 51),
     m1_pos_err   |-> i16_from_be_bytes(result, 53),
     m2_pos_err   |-> i16_from_be_bytes(result, 55)]

\* read_all_status_sync()
read_all_status_sync(roboclaw, io) ==
    LET cmd == 73
        data == <<roboclaw.addr, cmd>>
        x == send_and_read(data, roboclaw, io)
        result ==
            IF x.res.tag # "Ok" THEN x.res
            ELSE IF Len(x.res.val) = 0 THEN Err("Empty response")
            ELSE LET parsed == parse_response(x.res.val, roboclaw.addr, cmd)
                 IN  IF parsed.tag # "Ok" THEN parsed
                     ELSE IF Len(parsed.val) < 56
                          THEN Err("Invalid response length for Read All Status")
                     ELSE Ok(all_status_decode(parsed.val))
    IN  Call("read_all_status", 0, <<>>, cmd, data, x, result)

\* read_motor_currents_sync()
read_motor_currents_sync(roboclaw, io) ==
    LET cmd == 49
        data == <<roboclaw.addr, cmd>>
        x == send_and_read(data, roboclaw, io)
        result ==
            IF x.res.tag # "Ok" THEN x.res
            ELSE IF Len(x.res.val) = 0 THEN Err("Data is empty")
            ELSE LET parsed == parse_response(x.res.val, roboclaw.addr, cmd)
                 IN  IF parsed.tag # "Ok" THEN Err("Failed to parse")
                     ELSE IF Len(parsed.val) < 4 THEN Panic("index out of bounds")
                     ELSE Ok(<<(parsed.val[1] * 256) + parsed.val[2],
                               (parsed.val[3] * 256) + parsed.val[4]>>)
    IN  Call("read_motor_currents", 0, <<>>, cmd, data, x, result)

\* read_pwm_values_sync()
read_pwm_values_sync(roboclaw, io) ==
    LET cmd == 48
        data == <<roboclaw.addr, cmd>>
        x == send_and_read(data, roboclaw, io)
        result ==
            IF x.res.tag # "Ok" THEN x.res
            ELSE IF Len(x.res.val) = 0 THEN Err("Empty response")
            ELSE LET parsed == parse_response(x.res.val, roboclaw.addr, cmd)
                 IN  IF parsed.tag # "Ok" THEN Err("Failed to parse")
                     ELSE IF Len(parsed.val) < 4 THEN Panic("index out of bounds")
                     ELSE Ok(<<i16_from_be_bytes(parsed.val, 1),
                               i16_from_be_bytes(parsed.val, 3)>>)
    IN  Call("read_pwm_values", 0, <<>>, cmd, data, x, result)

\* the ack taken from the raw response, without parse_response
reset_encoder_sync_unvalidated(roboclaw, io) ==
    LET cmd == 20
        body == <<roboclaw.addr, cmd>>
        data == body \o CrcBytes(calc_crc(body))
        x == send_and_read(data, roboclaw, io)
        result ==
            IF x.res.tag # "Ok" THEN x.res
            ELSE IF x.res.val[1] = 255 THEN Ok(<<>>)
            ELSE Err("Failed to reset encoder")
    IN  Call("reset_encoder", 0, <<>>, cmd, data, x, result)

\* reset_encoder_sync()
reset_encoder_sync(roboclaw, io) ==
    LET cmd == 20
        body == <<roboclaw.addr, cmd>>
        data == body \o CrcBytes(calc_crc(body))
        x == send_and_read(data, roboclaw, io)
        result ==
            IF x.res.tag # "Ok" THEN x.res
            ELSE LET parsed == parse_response(x.res.val, roboclaw.addr, cmd)
                 IN  IF parsed.tag # "Ok" THEN parsed
                     ELSE IF parsed.val[1] = 255 THEN Ok(<<>>)
                     ELSE Err("Failed to reset encoder")
    IN  Call("reset_encoder", 0, <<>>, cmd, data, x, result)

\* the first reply word taken as D, the second as P, the third as I
position_pid_decode_dpi(result) ==
    [d        |-> i32_from_be_bytes(result, 1),
     p        |-> i32_from_be_bytes(result, 5),
     i        |-> i32_from_be_bytes(result, 9),
     max_i    |-> i32_from_be_bytes(result, 13),
     deadzone |-> i32_from_be_bytes(result, 17),
     min      |-> i32_from_be_bytes(result, 21),
     max      |-> i32_from_be_bytes(result, 25)]

\* PositionPidParams { p, i, d, max_i, deadzone, min, max } from the reply words
position_pid_decode(result) ==
    [p        |-> i32_from_be_bytes(result, 1),
     i        |-> i32_from_be_bytes(result, 5),
     d        |-> i32_from_be_bytes(result, 9),
     max_i    |-> i32_from_be_bytes(result, 13),
     deadzone |-> i32_from_be_bytes(result, 17),
     min      |-> i32_from_be_bytes(result, 21),
     max      |-> i32_from_be_bytes(result, 25)]

\* read_position_pid_sync(motor_index)
read_position_pid_sync(motor_index, roboclaw, io) ==
    LET cmd == IF motor_index = 1 THEN 63 ELSE 64
        data == <<roboclaw.addr, cmd>>
        x == send_and_read(data, roboclaw, io)
        result ==
            IF x.res.tag # "Ok" THEN x.res
            ELSE LET parsed == parse_response(x.res.val, roboclaw.addr, cmd)
                 IN  IF parsed.tag # "Ok" THEN parsed
                     ELSE IF Len(parsed.val) >= 28 THEN Ok(position_pid_decode(parsed.val))
                     ELSE Err("Invalid response length for PID read")
    IN  Call("read_position_pid", motor_index, <<>>, cmd, data, x, result)

\* the fields pushed in struct order P, I, D
position_pid_fields_pid(params) ==
    i32_to_be_bytes(params.p) \o i32_to_be_bytes(params.i) \o i32_to_be_bytes(params.d)
        \o i32_to_be_bytes(params.max_i) \o i32_to_be_bytes(params.deadzone)
        \o i32_to_be_bytes(params.min) \o i32_to_be_bytes(params.max)

\* the seven extend_from_slice(&params.<field>.to_be_bytes()) of set_position_pid_sync
position_pid_fields(params) ==
    i32_to_be_bytes(params.d) \o i32_to_be_bytes(params.p) \o i32_to_be_bytes(params.i)
        \o i32_to_be_bytes(params.max_i) \o i32_to_be_bytes(params.deadzone)
        \o i32_to_be_bytes(params.min) \o i32_to_be_bytes(params.max)

\* set_position_pid_sync(motor_index, params)
set_position_pid_sync(motor_index, params, roboclaw, io) ==
    LET cmd == IF motor_index = 1 THEN 61 ELSE 62
        body == <<roboclaw.addr, cmd>> \o position_pid_fields(params)
        data == body \o CrcBytes(calc_crc(body))
        x == send_and_read(data, roboclaw, io)
        result ==
            IF x.res.tag # "Ok" THEN x.res
            ELSE LET parsed == parse_response(x.res.val, roboclaw.addr, cmd)
                 IN  IF parsed.tag # "Ok" THEN parsed
                     ELSE IF parsed.val[1] = 255 THEN Ok(<<>>)
                     ELSE Err("Failed to set PID")
    IN  Call("set_position_pid", motor_index, params, cmd, data, x, result)

\* the first reply word taken as D, the second as P, the third as I
velocity_pid_decode_dpi(result) ==
    [d    |-> i32_from_be_bytes(result, 1),
     p    |-> i32_from_be_bytes(result, 5),
     i    |-> i32_from_be_bytes(result, 9),
     qpps |-> i32_from_be_bytes(result, 13)]

\* VelocityPidParams { p, i, d, qpps } from the reply words
velocity_pid_decode(result) ==
    [p    |-> i32_from_be_bytes(result, 1),
     i    |-> i32_from_be_bytes(result, 5),
     d    |-> i32_from_be_bytes(result, 9),
     qpps |-> i32_from_be_bytes(result, 13)]

\* read_velocity_pid_sync(motor_index)
read_velocity_pid_sync(motor_index, roboclaw, io) ==
    LET cmd == IF motor_index = 1 THEN 55 ELSE 56
        data == <<roboclaw.addr, cmd>>
        x == send_and_read(data, roboclaw, io)
        result ==
            IF x.res.tag # "Ok" THEN x.res
            ELSE LET parsed == parse_response(x.res.val, roboclaw.addr, cmd)
                 IN  IF parsed.tag # "Ok" THEN parsed
                     ELSE IF Len(parsed.val) >= 16 THEN Ok(velocity_pid_decode(parsed.val))
                     ELSE Err("Invalid response length for velocity PID read")
    IN  Call("read_velocity_pid", motor_index, <<>>, cmd, data, x, result)

\* the fields pushed in struct order P, I, D
velocity_pid_fields_pid(params) ==
    i32_to_be_bytes(params.p) \o i32_to_be_bytes(params.i) \o i32_to_be_bytes(params.d)
        \o i32_to_be_bytes(params.qpps)

\* the four extend_from_slice(&params.<field>.to_be_bytes()) of set_velocity_pid_sync
velocity_pid_fields(params) ==
    i32_to_be_bytes(params.d) \o i32_to_be_bytes(params.p) \o i32_to_be_bytes(params.i)
        \o i32_to_be_bytes(params.qpps)

\* set_velocity_pid_sync(motor_index, params)
set_velocity_pid_sync(motor_index, params, roboclaw, io) ==
    LET cmd == IF motor_index = 1 THEN 28 ELSE 29
        body == <<roboclaw.addr, cmd>> \o velocity_pid_fields(params)
        data == body \o CrcBytes(calc_crc(body))
        x == send_and_read(data, roboclaw, io)
        result ==
            IF x.res.tag # "Ok" THEN x.res
            ELSE LET parsed == parse_response(x.res.val, roboclaw.addr, cmd)
                 IN  IF parsed.tag # "Ok" THEN parsed
                     ELSE IF parsed.val[1] = 255 THEN Ok(<<>>)
                     ELSE Err("Failed to set velocity PID")
    IN  Call("set_velocity_pid", motor_index, params, cmd, data, x, result)

(***************************************************************************)
(* Inputs of the codec specification                                       *)
(***************************************************************************)
ByteSamples == {0, 129, 255}
AddrSamples == {128, 129}
CmdSamples  == {18, 73}
\* the ASCII string "123456789", the catalogue check input of CRC-16/XMODEM
CheckString == <<49, 50, 51, 52, 53, 54, 55, 56, 57>>
CodecData   == SeqsUpTo(ByteSamples, MaxLen) \cup {CheckString}

CodecIdle ==
    [stage |-> "idle", addr |-> 128, cmd |-> 0, data |-> <<>>, resp |-> <<>>,
     vaddr |-> 128, vcmd |-> 0, framed |-> FALSE, crc |-> 0, out |-> NoResult]


(***************************************************************************)
(* Codec specification: calc_crc and parse_response as pure functions.     *)
(* Init draws (addr, cmd, data); the actions apply the functions to it,    *)
(* to the frame the controller would build from it, and to that frame      *)
(* with one bit inverted.                                                  *)
(***************************************************************************)
CodecInit ==
    /\ codec \in {[CodecIdle EXCEPT !.stage = "input", !.addr = a, !.cmd = c, !.data = d,
                                    !.vaddr = a, !.vcmd = c] :
                      a \in AddrSamples, c \in CmdSamples, d \in CodecData}
    /\ SIMULATION_ENABLED = FALSE
    /\ ROBOCLAW = [addr |-> RoboclawAddr, port |-> FALSE, poisoned |-> FALSE]
    /\ device = DeviceInit
    /\ call = NoCall
    /\ SIM_STATE = SimStateInit
    /\ lock = LockInit
    /\ thread = ThreadsInit
    /\ wire = WireInit

DriverUnchanged ==
    UNCHANGED <<SIMULATION_ENABLED, ROBOCLAW, device, call, SIM_STATE, lock, thread, wire>>

\* calc_crc(data)
CodecCalcCrc ==
    /\ codec.stage = "input"
    /\ codec' = [codec EXCEPT !.stage = "crc", !.crc = calc_crc(codec.data)]
    /\ DriverUnchanged

\* the channel returns the bytes of data as they are
CodecRawReply ==
    /\ codec.stage = "input"
    /\ codec' = [codec EXCEPT !.stage = "reply", !.resp = codec.data]
    /\ DriverUnchanged

\* the channel returns data framed with its CRC
CodecFramedReply ==
    /\ codec.stage = "input"
    /\ codec' = [codec EXCEPT !.stage = "reply", !.framed = TRUE,
                              !.resp = Frame(codec.addr, codec.cmd, codec.data)]
    /\ DriverUnchanged

\* one bit of a reply that parse_response accepted is inverted on the line
CodecFlipReply ==
    /\ codec.stage = "parsed"
    /\ codec.out.tag = "Ok"
    /\ \E i \in 1..Len(codec.resp), k \in 0..7 :
          codec' = [codec EXCEPT !.stage = "flipped",
                                 !.resp = [codec.resp EXCEPT ![i] = FlipBit(@, k)]]
    /\ DriverUnchanged

\* one bit of the address used for validation is inverted
CodecFlipAddr ==
    /\ codec.stage = "parsed"
    /\ codec.out.tag = "Ok"
    /\ \E k \in 0..7 :
          codec' = [codec EXCEPT !.stage = "flipped", !.vaddr = FlipBit(@, k)]
    /\ DriverUnchanged

\* one bit of the command used for validation is inverted
CodecFlipCmd ==
    /\ codec.stage = "parsed"
    /\ codec.out.tag = "Ok"
    /\ \E k \in 0..7 :
          codec' = [codec EXCEPT !.stage = "flipped", !.vcmd = FlipBit(@, k)]
    /\ DriverUnchanged

\* parse_response(resp, addr, cmd) on the reply as received
CodecParse ==
    /\ codec.stage = "reply"
    /\ codec' = [codec EXCEPT !.stage = "parsed",
                              !.out = parse_response(codec.resp, codec.vaddr, codec.vcmd)]
    /\ DriverUnchanged

\* parse_response on the corrupted exchange
CodecParseFlipped ==
    /\ codec.stage = "flipped"
    /\ codec' = [codec EXCEPT !.stage = "parsedFlipped",
                              !.out = parse_response(codec.resp, codec.vaddr, codec.vcmd)]
    /\ DriverUnchanged

CodecNext ==
    \/ CodecCalcCrc
    \/ CodecRawReply
    \/ CodecFramedReply
    \/ CodecFlipReply
    \/ CodecFlipAddr
    \/ CodecFlipCmd
    \/ CodecParse
    \/ CodecParseFlipped

SpecCodec == CodecInit /\ [][CodecNext]_vars

(***************************************************************************)
(* Inputs of the driver specification                                      *)
(***************************************************************************)
MotorSamples == {1, 2, 3}
SpeedSamples == {0, 64, 127, 128, 255}
PwmSamples   == {-32768, -32767, -1, 0, 16000, 32767}

VelocityPidSamples ==
    { [p |-> 65536, i |-> 32768, d |-> 16384, qpps |-> 44000],
      [p |-> -1, i |-> 2147483647, d |-> I32Min, qpps |-> 0],
      [p |-> 7, i |-> 7, d |-> 7, qpps |-> -44000] }

PositionPidSamples ==
    { [p |-> 65536, i |-> 32768, d |-> 16384, max_i |-> 8192, deadzone |-> 0,
       min |-> -32767, max |-> 32767],
      [p |-> -1, i |-> 2147483647, d |-> I32Min, max_i |-> 256, deadzone |-> -256,
       min |-> 16777216, max |-> -16777217] }

\* payloads the controller may frame in reply to each command
AckPayloads == {<<255>>, <<0>>}
SpeedMagnitudes ==
    {<<0, 0, 3, 232>>, <<127, 255, 255, 255>>, <<128, 0, 0, 0>>, <<255, 255, 255, 255>>}
SpeedPayloads ==
    {m \o <<st>> : m \in SpeedMagnitudes, st \in {0, 1, 2}}
        \cup {<<7>>, <<0, 0, 3, 232>>, <<0, 0, 3, 232, 1, 9>>}
WordPairPayloads ==
    {<<0, 10, 255, 246>>, <<128, 0, 127, 255>>, <<1, 2, 3>>, <<9>>, <<0, 1, 0, 2, 0>>}
StatusPayloads ==
    {[j \in 1..56 |-> j], [j \in 1..56 |-> 256 - j], [j \in 1..55 |-> j], <<1, 2, 3>>}
VelocityPidPayloads ==
    {velocity_pid_fields(v) : v \in VelocityPidSamples}
        \cup {[j \in 1..15 |-> j], [j \in 1..17 |-> 200 + j]}
PositionPidPayloads ==
    {position_pid_fields(v) : v \in PositionPidSamples}
        \cup {[j \in 1..27 |-> j], [j \in 1..29 |-> 200 + j]}

PayloadsOf(cmd) ==
    CASE cmd \in {18, 19} -> SpeedPayloads
      [] cmd \in {48, 49} -> WordPairPayloads
      [] cmd = 73         -> StatusPayloads
      [] cmd \in {55, 56} -> VelocityPidPayloads
      [] cmd \in {63, 64} -> PositionPidPayloads
      [] OTHER            -> AckPayloads

Commands == {6, 7, 18, 19, 20, 28, 29, 32, 33, 48, 49, 55, 56, 61, 62, 63, 64, 73}

\* a frame whose last CRC bit was inverted on the line
Corrupt(f) == [f EXCEPT ![Len(f)] = FlipBit(@, 0)]

\* bytes that are no frame at all: nothing (timeout), a bare ack, a bare nack,
\* an ack followed by noise
RawReplies == {<<>>, <<255>>, <<0>>, <<255, 7, 7>>}

\* every reply of the model, by command
ReplySet ==
    UNION {{[cmd |-> c, bytes |-> f] : f \in {Frame(RoboclawAddr, c, q) : q \in PayloadsOf(c)}}
             \cup {[cmd |-> c, bytes |-> Corrupt(Frame(RoboclawAddr, c, q))] : q \in PayloadsOf(c)}
             \cup {[cmd |-> c, bytes |-> r] : r \in RawReplies} : c \in Commands}

RepliesTo(cmd) == {r.bytes : r \in {q \in ReplySet : q.cmd = cmd}}

\* what an exchange of command cmd can meet on the channel; echo: further replies
IoFor(cmd, echo) ==
    {IoWriteFails, IoReadFails} \cup {IoReply(b) : b \in RepliesTo(cmd) \cup echo}

\* the controller returning the PID fields last written to it, framed for cmd
Echo(cmd, fields) == IF fields = <<>> THEN {} ELSE {Frame(RoboclawAddr, cmd, fields)}

(***************************************************************************)
(* Driver specification: the Hardware backend.  One action per Driver      *)
(* operation (the whole call, one exchange under the ROBOCLAW lock), and   *)
(* the caller taking the result.                                           *)
(***************************************************************************)
Init ==
    /\ codec = CodecIdle
    /\ SIMULATION_ENABLED = FALSE
    /\ ROBOCLAW \in {[addr |-> RoboclawAddr, port |-> o, poisoned |-> FALSE] : o \in BOOLEAN}
    /\ device = DeviceInit
    /\ call = NoCall
    /\ SIM_STATE = SimStateInit
    /\ lock = LockInit
    /\ thread = ThreadsInit
    /\ wire = WireInit

Idle == call.op = "none"

\* The call c completes having met io.  A panic unwinds through the MutexGuard and
\* poisons ROBOCLAW; a PID write that reached the controller is what it now holds.
Exchanged(c, io) ==
    /\ call' = c
    /\ ROBOCLAW' = [ROBOCLAW EXCEPT !.poisoned = @ \/ c.result.tag = "Panic"]
    /\ device' =
         IF c.wrote /\ io.write_ok /\ c.op = "set_velocity_pid"
         THEN [device EXCEPT !.vel = SubSeq(c.req, 3, Len(c.req) - 2),
                             !.vel_params = c.args]
         ELSE IF c.wrote /\ io.write_ok /\ c.op = "set_position_pid"
         THEN [device EXCEPT !.pos = SubSeq(c.req, 3, Len(c.req) - 2),
                             !.pos_params = c.args]
         ELSE device

Complete(c, io) ==
    /\ Exchanged(c, io)
    /\ UNCHANGED <<codec, SIMULATION_ENABLED, SIM_STATE, lock, thread, wire>>

\* ROBOCLAW.lock().map_err(..)?, then the operation
Locked(op, motor, args, c) ==
    IF ROBOCLAW.poisoned THEN LockFailed(op, motor, args) ELSE c

DriveSimply ==
    /\ Idle /\ ~SIMULATION_ENABLED
    /\ \E speed \in SpeedSamples, m \in MotorSamples :
         \E io \in IoFor(IF m = 1 THEN 6 ELSE 7, {}) :
            Complete(Locked("drive_simply", m, <<speed>>,
                            drive_simply_sync(speed, m, ROBOCLAW, io)), io)

DrivePwm ==
    /\ Idle /\ ~SIMULATION_ENABLED
    /\ \E pwm \in PwmSamples, m \in MotorSamples :
         \E io \in IoFor(IF m = 1 THEN 32 ELSE 33, {}) :
            Complete(Locked("drive_pwm", m, <<pwm>>,
                            drive_pwm_sync(pwm, m, ROBOCLAW, io)), io)

ReadSpeed ==
    /\ Idle /\ ~SIMULATION_ENABLED
    /\ \E m \in MotorSamples, overflow_checks \in BOOLEAN :
         \E io \in IoFor(IF m = 1 THEN 18 ELSE 19, {}) :
            Complete(Locked("read_speed", m, <<>>,
                            read_speed_sync(m, ROBOCLAW, io, overflow_checks)), io)

ReadAllStatus ==
    /\ Idle /\ ~SIMULATION_ENABLED
    /\ \E io \in IoFor(73, {}) :
         Complete(Locked("read_all_status", 0, <<>>, read_all_status_sync(ROBOCLAW, io)), io)

ReadMotorCurrents ==
    /\ Idle /\ ~SIMULATION_ENABLED
    /\ \E io \in IoFor(49, {}) :
         Complete(Locked("read_motor_currents", 0, <<>>,
                         read_motor_currents_sync(ROBOCLAW, io)), io)

ReadPwmValues ==
    /\ Idle /\ ~SIMULATION_ENABLED
    /\ \E io \in IoFor(48, {}) :
         Complete(Locked("read_pwm_values", 0, <<>>, read_pwm_values_sync(ROBOCLAW, io)), io)

ResetEncoder ==
    /\ Idle /\ ~SIMULATION_ENABLED
    /\ \E io \in IoFor(20, {}) :
         Complete(Locked("reset_encoder", 0, <<>>, reset_encoder_sync(ROBOCLAW, io)), io)

ReadPositionPid ==
    /\ Idle /\ ~SIMULATION_ENABLED
    /\ \E m \in MotorSamples :
         LET cmd == IF m = 1 THEN 63 ELSE 64
         IN  \E io \in IoFor(cmd, Echo(cmd, device.pos)) :
                Complete(Locked("read_position_pid", m, <<>>,
                                read_position_pid_sync(m, ROBOCLAW, io)), io)

SetPositionPid ==
    /\ Idle /\ ~SIMULATION_ENABLED
    /\ \E m \in MotorSamples, params \in PositionPidSamples :
         \E io \in IoFor(IF m = 1 THEN 61 ELSE 62, {}) :
            Complete(Locked("set_position_pid", m, params,
                            set_position_pid_sync(m, params, ROBOCLAW, io)), io)

ReadVelocityPid ==
    /\ Idle /\ ~SIMULATION_ENABLED
    /\ \E m \in MotorSamples :
         LET cmd == IF m = 1 THEN 55 ELSE 56
         IN  \E io \in IoFor(cmd, Echo(cmd, device.vel)) :
                Complete(Locked("read_velocity_pid", m, <<>>,
                                read_velocity_pid_sync(m, ROBOCLAW, io)), io)

SetVelocityPid ==
    /\ Idle /\ ~SIMULATION_ENABLED
    /\ \E m \in MotorSamples, params \in VelocityPidSamples :
         \E io \in IoFor(IF m = 1 THEN 28 ELSE 29, {}) :
            Complete(Locked("set_velocity_pid", m, params,
                            set_velocity_pid_sync(m, params, ROBOCLAW, io)), io)

\* the caller takes the result of the completed call
TakeResult ==
    /\ ~Idle
    /\ call' = NoCall
    /\ UNCHANGED <<codec, SIMULATION_ENABLED, ROBOCLAW, device, SIM_STATE, lock, thread, wire>>

Next ==
    \/ DriveSimply
    \/ DrivePwm
    \/ ReadSpeed
    \/ ReadAllStatus
    \/ ReadMotorCurrents
    \/ ReadPwmValues
    \/ ResetEncoder
    \/ ReadPositionPid
    \/ SetPositionPid
    \/ ReadVelocityPid
    \/ SetVelocityPid
    \/ TakeResult

Spec == Init /\ [][Next]_vars

(***************************************************************************)
(* The Simulated backend, one caller: the branch each Driver operation     *)
(* takes when SIMULATION_ENABLED is set.  The operation locks SIM_STATE,   *)
(* runs sim_update (which writes velocity, encoder count, integrator and   *)
(* timestamp, none of them a command field), writes the command fields and *)
(* returns.                                                                *)
(***************************************************************************)
\* drive_simply_sync, simulated: the speed byte is stored as given
drive_simply_sim(sim, speed, motor_index) ==
    IF motor_index = 1 THEN [sim EXCEPT !.m1_speed = speed, !.m1_mode_pwm = FALSE]
    ELSE IF motor_index = 2 THEN [sim EXCEPT !.m2_speed = speed, !.m2_mode_pwm = FALSE]
    ELSE sim

\* drive_pwm_sync, simulated: the duty is stored as given, on motor 2 unless motor 1
drive_pwm_sim(sim, pwm, motor_index) ==
    IF motor_index = 1 THEN [sim EXCEPT !.m1_pwm = pwm, !.m1_mode_pwm = TRUE]
    ELSE [sim EXCEPT !.m2_pwm = pwm, !.m2_mode_pwm = TRUE]

\* reset_encoder_sync, simulated
reset_encoder_sim(sim) ==
    LET cmds == [sim EXCEPT !.m1_speed = 64, !.m2_speed = 64, !.m1_pwm = 0, !.m2_pwm = 0,
                            !.m1_mode_pwm = FALSE, !.m2_mode_pwm = FALSE]
    IN  IF "m1_vel" \in DOMAIN cmds THEN [cmds EXCEPT !.m1_vel = 0] ELSE cmds

\* the record kept of a simulated call: nothing written, nothing read
SimCall(op, motor, args, result) ==
    [NoCall EXCEPT !.op = op, !.motor = motor, !.args = args, !.result = result]

SimInit ==
    /\ codec = CodecIdle
    /\ SIMULATION_ENABLED = TRUE
    /\ ROBOCLAW = [addr |-> RoboclawAddr, port |-> FALSE, poisoned |-> FALSE]
    /\ device = DeviceInit
    /\ call = NoCall
    /\ SIM_STATE = SimStateInit
    /\ lock = LockInit
    /\ thread = ThreadsInit
    /\ wire = WireInit

SimUnchanged == UNCHANGED <<codec, SIMULATION_ENABLED, ROBOCLAW, device, lock, thread, wire>>

SimDriveSimply ==
    /\ Idle /\ SIMULATION_ENABLED
    /\ \E speed \in SpeedSamples, m \in MotorSamples :
         /\ SIM_STATE' = drive_simply_sim(SIM_STATE, speed, m)
         /\ call' = SimCall("drive_simply", m, <<speed>>, Ok(<<>>))
    /\ SimUnchanged

SimDrivePwm ==
    /\ Idle /\ SIMULATION_ENABLED
    /\ \E pwm \in PwmSamples, m \in MotorSamples :
         /\ SIM_STATE' = drive_pwm_sim(SIM_STATE, pwm, m)
         /\ call' = SimCall("drive_pwm", m, <<pwm>>, Ok(<<>>))
    /\ SimUnchanged

SimResetEncoder ==
    /\ Idle /\ SIMULATION_ENABLED
    /\ SIM_STATE' = reset_encoder_sim(SIM_STATE)
    /\ call' = SimCall("reset_encoder", 0, <<>>, Ok(<<>>))
    /\ SimUnchanged

SimNext ==
    \/ SimDriveSimply
    \/ SimDrivePwm
    \/ SimResetEncoder
    \/ TakeResult

SpecSim == SimInit /\ [][SimNext]_vars

(***************************************************************************)
(* measure_qpps_sync, the computation on the collected samples             *)
(* (device.rs:726-739) as a pure function.  Init draws the encoder         *)
(* samples; the actions compute the reported value, replace the delta of   *)
(* one interval by another value and compute the reported value again.     *)
(***************************************************************************)
\* most intervals between the encoder samples of one measurement
MaxIntervals == 4

\* the encoder deltas per 100 ms the series are built from, and the outliers
DeltaSamples == {-2, 0, 3, 4, 5}
OutlierSamples == {-300000000, -50, 1, 1000, 300000000}

\* ((delta as f64) / 0.1).round() as i32: ten times delta, saturated to i32
qpps_of_delta(delta) ==
    IF delta > 214748364 THEN 2147483647
    ELSE IF delta < -214748364 THEN I32Min
    ELSE delta * 10

\* for i in 1..encoder_samples.len(): the rate of each interval
qpps_samples(encoder_samples) ==
    [i \in 1..(Len(encoder_samples) - 1) |->
        qpps_of_delta(encoder_samples[i + 1] - encoder_samples[i])]

\* v put at its place in the ascending sequence s
RECURSIVE insert_sorted(_, _)
insert_sorted(s, v) ==
    IF s = <<>> THEN <<v>>
    ELSE IF v <= Head(s) THEN <<v>> \o s
    ELSE <<Head(s)>> \o insert_sorted(Tail(s), v)

\* qpps_samples.sort()
RECURSIVE sort(_)
sort(s) == IF s = <<>> THEN <<>> ELSE insert_sorted(sort(Tail(s)), Head(s))

RECURSIVE sum(_)
sum(s) == IF s = <<>> THEN 0 ELSE Head(s) + sum(Tail(s))

\* the mean of the rates in place of their median
reported_qpps_mean(qpps_sorted) == sum(qpps_sorted) \div Len(qpps_sorted)

\* qpps_samples[qpps_samples.len() / 2] of the sorted rates (indices from 0)
reported_qpps(qpps_sorted) == qpps_sorted[(Len(qpps_sorted) \div 2) + 1]

\* the encoder samples of a measurement whose interval deltas are ds
RECURSIVE samples_of_deltas(_, _)
samples_of_deltas(first, ds) ==
    IF ds = <<>> THEN <<first>>
    ELSE <<first>> \o samples_of_deltas(first + Head(ds), Tail(ds))

EncoderSeries ==
    {samples_of_deltas(0, ds) : ds \in UNION {[1..n -> DeltaSamples] : n \in 1..MaxIntervals}}

\* the same measurement with the delta of interval i replaced by x
with_delta(encoder_samples, i, x) ==
    LET shift == x - (encoder_samples[i + 1] - encoder_samples[i])
    IN  [j \in 1..Len(encoder_samples) |->
            IF j > i THEN encoder_samples[j] + shift ELSE encoder_samples[j]]

QppsIdle ==
    [stage |-> "samples", encoder_samples |-> <<0, 0>>, qpps |-> 0,
     replaced |-> <<0, 0>>, qpps_replaced |-> 0]

QppsInit ==
    /\ codec \in {[QppsIdle EXCEPT !.encoder_samples = e, !.replaced = e] : e \in EncoderSeries}
    /\ SIMULATION_ENABLED = FALSE
    /\ ROBOCLAW = [addr |-> RoboclawAddr, port |-> FALSE, poisoned |-> FALSE]
    /\ device = DeviceInit
    /\ call = NoCall
    /\ SIM_STATE = SimStateInit
    /\ lock = LockInit
    /\ thread = ThreadsInit
    /\ wire = WireInit

\* the value measure_qpps_sync reports for the collected samples
QppsReport ==
    /\ codec.stage = "samples"
    /\ codec' = [codec EXCEPT !.stage = "reported",
                    !.qpps = reported_qpps(sort(qpps_samples(codec.encoder_samples)))]
    /\ DriverUnchanged

\* the same measurement with one interval disturbed, and the value reported for it
QppsReplaceDelta ==
    /\ codec.stage = "reported"
    /\ \E i \in 1..(Len(codec.encoder_samples) - 1), x \in OutlierSamples :
         LET e == with_delta(codec.encoder_samples, i, x)
         IN  codec' = [codec EXCEPT !.stage = "replaced", !.replaced = e,
                          !.qpps_replaced = reported_qpps(sort(qpps_samples(e)))]
    /\ DriverUnchanged

QppsNext ==
    \/ QppsReport
    \/ QppsReplaceDelta

SpecQpps == QppsInit /\ [][QppsNext]_vars

(***************************************************************************)
(* sim.rs: sim_update, the simulation step.  The f32 quantities are kept   *)
(* in fixed point: a velocity in thousandths of a pulse per second, a time *)
(* in tenths of a millisecond, the integrator in thousandths of a pulse.   *)
(* Products are divided with rounding to nearest, as the f32 operations    *)
(* round.  The encoder is the i64 of the source, kept as three limbs.      *)
(***************************************************************************)
Abs(x) == IF x < 0 THEN -x ELSE x

RECURSIVE Gcd(_, _)
Gcd(a, b) == IF b = 0 THEN a ELSE Gcd(b, a % b)

\* a * b / c to the nearest integer (c > 0), computed without leaving 32 bits
MulDiv(a, b, c) ==
    LET g == Gcd(Abs(b), c)
        B == Abs(b) \div g
        C == c \div g
        A == Abs(a)
        mag == (A \div C) * B + ((A % C) * B + C \div 2) \div C
    IN  IF (a < 0) # (b < 0) THEN -mag ELSE mag

\* n pulses per second as a velocity, n milliseconds as a time
Pps(n) == n * 1000
Ms(n) == n * 10

\* an i64 as <<high 16 bits (signed), middle 24 bits, low 24 bits>>
I64(hi, mid, lo) == <<hi, mid, lo>>
I64Max == I64(32767, 16777215, 16777215)
I64Min == I64(-32768, 0, 0)
I64Less(a, b) ==
    \/ a[1] < b[1]
    \/ a[1] = b[1] /\ a[2] < b[2]
    \/ a[1] = b[1] /\ a[2] = b[2] /\ a[3] < b[3]

\* an addition that stops at the ends of the range
saturating_add(a, n) ==
    LET s0 == a[3] + n
        s1 == a[2] + (s0 \div 16777216)
        s2 == a[1] + (s1 \div 16777216)
    IN  IF s2 > 32767 THEN I64Max
        ELSE IF s2 < -32768 THEN I64Min
        ELSE I64(s2, s1 % 16777216, s0 % 16777216)

\* i64::wrapping_add(a, n), n within 32 bits
wrapping_add(a, n) ==
    LET s0 == a[3] + n
        s1 == a[2] + (s0 \div 16777216)
        s2 == a[1] + (s1 \div 16777216)
    IN  I64(((s2 + 32768) % 65536) - 32768, s1 % 16777216, s0 % 16777216)

\* the pulses of one sub-step rounded to the nearest integer
encoder_pulses_rounded(vel, sub_dt) ==
    LET mag == (Abs(vel) * sub_dt + 5000000) \div 10000000
    IN  IF vel < 0 THEN -mag ELSE mag

\* (vel * sub_dt) as i64: the pulses of one sub-step, truncated toward zero
encoder_pulses(vel, sub_dt) ==
    LET mag == (Abs(vel) * sub_dt) \div 10000000
    IN  IF vel < 0 THEN -mag ELSE mag

\* the elapsed time limited to 0.21 s instead of max_dt
clamp_dt_wider(raw_dt) == Clamp(raw_dt, 0, Ms(210))

\* raw_dt.clamp(0.0, max_dt), max_dt = 0.2
clamp_dt(raw_dt) == Clamp(raw_dt, 0, Ms(200))

\* if dt_total <= 1e-6: the update returns early (dt in units of 0.1 ms)
negligible(dt) == 100 * dt <= 1

\* steps = (dt / sub_step).ceil(), sub_step = 0.01
sub_steps(dt) == (dt + Ms(10) - 1) \div Ms(10)

\* the PWM-mode actuator command times the gain: gain * (pwm / 32767).clamp(-1, 1)
pwm_target(sim) ==
    MulDiv(Pps(sim.gain_m1), Clamp(sim.m1_pwm, -32767, 32767), 32767)

\* the speed-mode branch: the velocity PID on the setpoint of the speed byte.
\* The record holds the new integrator, the error and the target gain * u.
pid_target(sim, dt) ==
    LET params == sim.m1_velocity_pid
        set_v == MulDiv(Pps(params.qpps), sim.m1_speed - 64, 63)
        err == set_v - sim.m1_vel
        vi == sim.m1_vi + MulDiv(err, dt, 10000)
        deriv == MulDiv(err - sim.m1_v_last_err, 10000, dt)
        control == MulDiv(err, params.p, 65536) + MulDiv(vi, params.i, 65536)
                     + MulDiv(deriv, params.d, 65536)
        u == Clamp(control, -Pps(params.qpps), Pps(params.qpps))
    IN  [vi |-> vi, err |-> err, target |-> MulDiv(u, sim.gain_m1, params.qpps)]

\* the velocities after each of the sub-steps: vel += (sub_dt / tau) * (target - vel)
RECURSIVE sub_step_vels(_, _, _, _, _)
sub_step_vels(vel, target, sub_dt, tau, steps) ==
    IF steps = 0 THEN <<>>
    ELSE LET v == vel + MulDiv(target - vel, sub_dt, tau)
         IN  <<v>> \o sub_step_vels(v, target, sub_dt, tau, steps - 1)

\* encoder = encoder.wrapping_add((vel * sub_dt) as i64), sub-step by sub-step
RECURSIVE accumulate(_, _, _)
accumulate(encoder, vels, sub_dt) ==
    IF vels = <<>> THEN encoder
    ELSE accumulate(wrapping_add(encoder, encoder_pulses(Head(vels), sub_dt)),
                    Tail(vels), sub_dt)

\* the velocities sim_update steps through when raw_dt has passed since last_update
update_vels(sim, raw_dt) ==
    LET dt == clamp_dt(raw_dt)
        target == IF sim.m1_mode_pwm THEN pwm_target(sim) ELSE pid_target(sim, dt).target
    IN  IF ~sim.last_update \/ negligible(dt) THEN <<>>
        ELSE sub_step_vels(sim.m1_vel, target, dt \div sub_steps(dt), sim.tau_m1, sub_steps(dt))

\* sim_update(&mut sim), raw_dt after the update before
sim_update(sim, raw_dt) ==
    LET dt == clamp_dt(raw_dt)
        pid == pid_target(sim, dt)
        vels == update_vels(sim, raw_dt)
    IN  IF ~sim.last_update \/ negligible(dt) THEN [sim EXCEPT !.last_update = TRUE]
        ELSE [sim EXCEPT
                 !.m1_vi = IF sim.m1_mode_pwm THEN @ ELSE pid.vi,
                 !.m1_v_last_err = IF sim.m1_mode_pwm THEN @ ELSE pid.err,
                 !.m1_vel = vels[Len(vels)],
                 !.m1_encoder = accumulate(@, vels, dt \div sub_steps(dt))]

\* set_sim_params_sync(1, tau, gain)
set_sim_params_sync(sim, tau, gain) == [sim EXCEPT !.tau_m1 = tau, !.gain_m1 = gain]

\* vel.round() as i32 of read_speed_sync
read_speed_sim(sim) == MulDiv(sim.m1_vel, 1, 1000)

(***************************************************************************)
(* The simulated motor in PWM mode: set_sim_params_sync, drive_pwm_sync    *)
(* and read_speed_sync on the Simulated backend, each call some time after *)
(* the one before.                                                         *)
(***************************************************************************)
\* most calls that run sim_update in one run
MaxUpdates == 5

\* the time constants (0.1 s is the default) and gains (100 is the default) given
\* to set_sim_params, the duties commanded and the times between two calls
TauSamples == {Ms(100), Ms(6)}
GainSamples == {100, 1500}
DutySamples == {-32767, 16000}
DtSamples == {0, Ms(10), Ms(200), Ms(300)}

\* the encoder counts a run starts from: 0 as constructed, and counts next to the
\* ends of the i64 range, which set_sim_params with a large gain leads to in a few
\* sub-steps ((vel * sub_dt) as i64 saturates at i64::MAX)
EncoderSamples == {I64(0, 0, 0), I64(32767, 16777215, 16777200), I64(-32768, 0, 10)}

\* sim.rs: the fields of SIM_STATE's initialiser that sim_update works on (motor 1)
SimPhysicsInit ==
    [m1_speed |-> 64, m2_speed |-> 64, m1_pwm |-> 0, m2_pwm |-> 0,
     m1_mode_pwm |-> FALSE, m2_mode_pwm |-> FALSE,
     m1_vel |-> 0, m1_encoder |-> I64(0, 0, 0),
     m1_velocity_pid |-> [p |-> 65536, i |-> 32768, d |-> 16384, qpps |-> 44000],
     m1_vi |-> 0, m1_v_last_err |-> 0, last_update |-> FALSE,
     tau_m1 |-> Ms(100), gain_m1 |-> 100]

\* the pulses the sub-steps of one update add up to
RECURSIVE PulsesOf(_, _)
PulsesOf(vels, sub_dt) ==
    IF vels = <<>> THEN 0 ELSE encoder_pulses(Head(vels), sub_dt) + PulsesOf(Tail(vels), sub_dt)

\* the record of the last simulated call: what it was, the state it found and the
\* time since the update before, the velocities after the sub-steps of its update
\* and the pulses they add up to; the calls that ran sim_update so far; the
\* simulated time accumulated since a duty was commanded at rest (none: -1)
PhysCall(op, raw_dt, before, result, updates, elapsed) ==
    LET vels == IF op = "set_sim_params" THEN <<>> ELSE update_vels(before, raw_dt)
    IN  [op |-> op, raw_dt |-> raw_dt, before |-> before, result |-> result,
         updates |-> updates, elapsed |-> elapsed, vels |-> vels,
         pulses |-> IF vels = <<>> THEN 0
                    ELSE PulsesOf(vels, clamp_dt(raw_dt) \div sub_steps(clamp_dt(raw_dt)))]

PhysicsInit ==
    /\ codec = CodecIdle
    /\ SIMULATION_ENABLED = TRUE
    /\ ROBOCLAW = [addr |-> RoboclawAddr, port |-> FALSE, poisoned |-> FALSE]
    /\ device = DeviceInit
    /\ SIM_STATE \in {[SimPhysicsInit EXCEPT !.m1_encoder = e] : e \in EncoderSamples}
    /\ call = PhysCall("none", 0, SIM_STATE, NoResult, 0, -1)
    /\ lock = LockInit
    /\ thread = ThreadsInit
    /\ wire = WireInit

\* the simulated time since the duty was commanded at rest, after raw_dt more
Elapsed(sim, raw_dt) ==
    IF call.elapsed < 0 THEN -1
    ELSE IF ~sim.last_update THEN call.elapsed
    ELSE Min(call.elapsed + clamp_dt(raw_dt), Ms(500))

\* set_sim_params(1, tau, gain), before the motor is driven
PhysSetSimParams ==
    /\ call.updates = 0
    /\ \E tau \in TauSamples, gain \in GainSamples :
         /\ <<tau, gain>> # <<SIM_STATE.tau_m1, SIM_STATE.gain_m1>>
         /\ SIM_STATE' = set_sim_params_sync(SIM_STATE, tau, gain)
         /\ call' = PhysCall("set_sim_params", 0, SIM_STATE, Ok(<<>>), 0, -1)
    /\ SimUnchanged

\* drive_pwm_sync(pwm, 1), simulated: sim_update, then the duty is stored
PhysDrivePwm ==
    /\ call.updates < MaxUpdates
    /\ \E pwm \in DutySamples :
         LET sim == sim_update(SIM_STATE, Ms(10))
         IN  /\ SIM_STATE' = drive_pwm_sim(sim, pwm, 1)
             /\ call' = PhysCall("drive_pwm", Ms(10), SIM_STATE, Ok(<<>>), call.updates + 1,
                                 IF sim.m1_vel = 0 THEN 0 ELSE -1)
    /\ SimUnchanged

\* read_speed_sync(1), simulated: sim_update, then the velocity rounded
PhysReadSpeed ==
    /\ call.updates < MaxUpdates
    /\ \E raw_dt \in DtSamples :
         LET sim == sim_update(SIM_STATE, raw_dt)
         IN  /\ SIM_STATE' = sim
             /\ call' = PhysCall("read_speed", raw_dt, SIM_STATE, Ok(read_speed_sim(sim)),
                                 call.updates + 1, Elapsed(SIM_STATE, raw_dt))
    /\ SimUnchanged

PhysicsNext ==
    \/ PhysSetSimParams
    \/ PhysDrivePwm
    \/ PhysReadSpeed

SpecPhysics == PhysicsInit /\ [][PhysicsNext]_vars

(***************************************************************************)
(* The simulated motor in speed mode, twice: two Simulation States that    *)
(* differ in the proportional gain of the velocity PID only receive the    *)
(* same calls after the same times.  SIM_STATE is the first, codec.sim the *)
(* second, with twice the gain.                                            *)
(***************************************************************************)
\* the velocity PID of the first state: proportional only (as in the test of
\* sim.rs) and with the integral and derivative gains of the initialiser
PidSamples ==
    {[p |-> 65536, i |-> 0, d |-> 0, qpps |-> 1000],
     [p |-> 65536, i |-> 32768, d |-> 16384, qpps |-> 1000]}
SpeedBytes == {127, 96}
TwinDtSamples == {0, Ms(10), Ms(200), Ms(300)}

\* sim2.m1_velocity_pid.p = 2 * p
DoubleP(sim) == [sim EXCEPT !.m1_velocity_pid.p = 2 * @]

TwinInit ==
    /\ SIMULATION_ENABLED = TRUE
    /\ ROBOCLAW = [addr |-> RoboclawAddr, port |-> FALSE, poisoned |-> FALSE]
    /\ device = DeviceInit
    /\ SIM_STATE \in {[SimPhysicsInit EXCEPT !.m1_velocity_pid = pid, !.gain_m1 = gain] :
                         pid \in PidSamples, gain \in GainSamples}
    /\ codec = [stage |-> "twin", sim |-> DoubleP(SIM_STATE), updates |-> 0, raw_dt |-> 0]
    /\ call = NoCall
    /\ lock = LockInit
    /\ thread = ThreadsInit
    /\ wire = WireInit

TwinUnchanged == UNCHANGED <<SIMULATION_ENABLED, ROBOCLAW, device, call, lock, thread, wire>>

\* drive_simply_sync(speed, 1), simulated, on both states
TwinDriveSimply ==
    /\ codec.updates < MaxUpdates
    /\ \E speed \in SpeedBytes, raw_dt \in TwinDtSamples :
         /\ speed # SIM_STATE.m1_speed
         /\ SIM_STATE' = drive_simply_sim(sim_update(SIM_STATE, raw_dt), speed, 1)
         /\ codec' = [codec EXCEPT !.sim = drive_simply_sim(sim_update(@, raw_dt), speed, 1),
                                   !.updates = @ + 1, !.raw_dt = raw_dt]
    /\ TwinUnchanged

\* read_speed_sync(1), simulated, on both states
TwinReadSpeed ==
    /\ codec.updates < MaxUpdates
    /\ \E raw_dt \in TwinDtSamples :
         /\ SIM_STATE' = sim_update(SIM_STATE, raw_dt)
         /\ codec' = [codec EXCEPT !.sim = sim_update(@, raw_dt), !.updates = @ + 1,
                                   !.raw_dt = raw_dt]
    /\ TwinUnchanged

TwinNext ==
    \/ TwinDriveSimply
    \/ TwinReadSpeed

SpecTwin == TwinInit /\ [][TwinNext]_vars

(***************************************************************************)
(* Reset Encoder on the Simulated backend, between drive commands and      *)
(* reads of the simulated motor.  codec records the last call, whether a   *)
(* drive command followed the last reset, and the encoder count the last   *)
(* read_all_status reported.                                               *)
(***************************************************************************)
RstDtSamples == {Ms(10), Ms(200)}

RstInit ==
    /\ SIMULATION_ENABLED = TRUE
    /\ ROBOCLAW = [addr |-> RoboclawAddr, port |-> FALSE, poisoned |-> FALSE]
    /\ device = DeviceInit
    /\ SIM_STATE \in {[SimPhysicsInit EXCEPT !.m1_velocity_pid = pid, !.gain_m1 = gain] :
                         pid \in PidSamples, gain \in GainSamples}
    /\ codec = [stage |-> "reset", updates |-> 0, last |-> "none", prev |-> "none",
                since_reset |-> FALSE, m1_encoder |-> I64(0, 0, 0)]
    /\ call = NoCall
    /\ lock = LockInit
    /\ thread = ThreadsInit
    /\ wire = WireInit

RstCalled(op) == [codec EXCEPT !.updates = @ + 1, !.prev = codec.last, !.last = op]

\* drive_simply_sync(speed, 1), simulated: sim_update, then the speed byte is stored
RstDriveSimply ==
    /\ codec.updates < MaxUpdates
    /\ \E speed \in SpeedBytes, raw_dt \in RstDtSamples :
         SIM_STATE' = drive_simply_sim(sim_update(SIM_STATE, raw_dt), speed, 1)
    /\ codec' = [RstCalled("drive_simply") EXCEPT !.since_reset = FALSE]
    /\ TwinUnchanged

\* drive_pwm_sync(32767, 1), simulated: sim_update, then the duty is stored
RstDrivePwm ==
    /\ codec.updates < MaxUpdates
    /\ \E raw_dt \in RstDtSamples :
         SIM_STATE' = drive_pwm_sim(sim_update(SIM_STATE, raw_dt), 32767, 1)
    /\ codec' = [RstCalled("drive_pwm") EXCEPT !.since_reset = FALSE]
    /\ TwinUnchanged

\* read_all_status_sync(), simulated: sim_update, then "m1_encoder": sim.m1_encoder
RstReadAllStatus ==
    /\ codec.updates < MaxUpdates
    /\ \E raw_dt \in RstDtSamples :
         SIM_STATE' = sim_update(SIM_STATE, raw_dt)
    /\ codec' = [RstCalled("read_all_status") EXCEPT !.m1_encoder = SIM_STATE'.m1_encoder]
    /\ TwinUnchanged

\* reset_encoder_sync(), simulated: no sim_update
RstResetEncoder ==
    /\ codec.updates < MaxUpdates
    /\ codec.last # "reset_encoder"
    /\ SIM_STATE' = reset_encoder_sim(SIM_STATE)
    /\ codec' = [RstCalled("reset_encoder") EXCEPT !.since_reset = TRUE]
    /\ TwinUnchanged

RstNext ==
    \/ RstDriveSimply
    \/ RstDrivePwm
    \/ RstReadAllStatus
    \/ RstResetEncoder

SpecReset == RstInit /\ [][RstNext]_vars

(***************************************************************************)
(* The Controller Handle under configure_port, configure_baud and          *)
(* set_simulation_mode: the port name and baud rate it records, next to    *)
(* the ones its open channel was opened with (codec.channel).              *)
(***************************************************************************)
\* let baud_rate = 115_200 of ROBOCLAW's initialiser
DefaultBaud == 115200
\* let port_name = ... "/dev/ttyACM0"
DefaultPort == "/dev/ttyACM0"

\* most configuration calls in one run
MaxConfigs == 4

\* the names and rates given to configure_port and configure_baud (0: None)
ConfigPortNames == {SIMULATED_PORT, DefaultPort, "/dev/ttyACM1"}
BaudRates == {38400, DefaultBaud}
NoChannel == [name |-> "", baud |-> 0]
Channel(name, baud) == [name |-> name, baud |-> baud]

PortInit ==
    /\ SIMULATION_ENABLED = FALSE
    /\ \E o \in BOOLEAN :
         /\ ROBOCLAW = [addr |-> RoboclawAddr, port |-> o, poisoned |-> FALSE,
                        port_name |-> DefaultPort, baud_rate |-> DefaultBaud]
         /\ codec = [stage |-> "port", calls |-> 0, last |-> "none", result |-> NoResult,
                     channel |-> IF o THEN Channel(DefaultPort, DefaultBaud) ELSE NoChannel]
    /\ device = DeviceInit
    /\ call = NoCall
    /\ SIM_STATE = SimStateInit
    /\ lock = LockInit
    /\ thread = ThreadsInit
    /\ wire = WireInit

PortUnchanged == UNCHANGED <<device, call, SIM_STATE, lock, thread, wire>>

\* configure_port_sync(port_name, baud_rate); opened: serialport's open succeeds
configure_port_sync(roboclaw, port_name, baud_rate, opened) ==
    IF port_name = SIMULATED_PORT
    THEN [flag |-> TRUE, result |-> Ok(<<>>), channel |-> NoChannel,
          roboclaw |-> [roboclaw EXCEPT !.port = FALSE, !.port_name = port_name]]
    ELSE LET baud == IF baud_rate = 0 THEN roboclaw.baud_rate ELSE baud_rate
         IN  [flag |-> FALSE,
              result |-> IF opened THEN Ok(<<>>) ELSE Err("Failed to open port"),
              channel |-> IF opened THEN Channel(port_name, baud) ELSE NoChannel,
              roboclaw |-> [roboclaw EXCEPT !.port = opened, !.port_name = port_name,
                                            !.baud_rate = baud]]

\* configure_baud_sync(baud_rate): the rate is recorded, then, unless the flag is
\* set, the port is reopened; the assignment to roboclaw.port is not reached when
\* the open fails
configure_baud_sync(roboclaw, simulated, baud_rate, channel, opened) ==
    IF simulated
    THEN [result |-> Ok(<<>>), channel |-> channel,
          roboclaw |-> [roboclaw EXCEPT !.baud_rate = baud_rate]]
    ELSE IF opened
    THEN [result |-> Ok(<<>>), channel |-> Channel(roboclaw.port_name, baud_rate),
          roboclaw |-> [roboclaw EXCEPT !.port = TRUE, !.baud_rate = baud_rate]]
    ELSE [result |-> Err("Failed to reopen port"), channel |-> channel,
          roboclaw |-> [roboclaw EXCEPT !.baud_rate = baud_rate]]

PortConfigurePort ==
    /\ codec.calls < MaxConfigs
    /\ \E port_name \in ConfigPortNames, baud_rate \in BaudRates \cup {0}, opened \in BOOLEAN :
         LET r == configure_port_sync(ROBOCLAW, port_name, baud_rate, opened)
         IN  /\ SIMULATION_ENABLED' = r.flag
             /\ ROBOCLAW' = r.roboclaw
             /\ codec' = [codec EXCEPT !.calls = @ + 1, !.last = "configure_port",
                                       !.result = r.result, !.channel = r.channel]
    /\ PortUnchanged

PortConfigureBaud ==
    /\ codec.calls < MaxConfigs
    /\ \E baud_rate \in BaudRates, opened \in BOOLEAN :
         LET r == configure_baud_sync(ROBOCLAW, SIMULATION_ENABLED, baud_rate, codec.channel,
                                      opened)
         IN  /\ ROBOCLAW' = r.roboclaw
             /\ codec' = [codec EXCEPT !.calls = @ + 1, !.last = "configure_baud",
                                       !.result = r.result, !.channel = r.channel]
    /\ UNCHANGED SIMULATION_ENABLED
    /\ PortUnchanged

\* set_simulation_mode_sync(enabled): the flag only
PortSetSimulationMode ==
    /\ codec.calls < MaxConfigs
    /\ \E enabled \in BOOLEAN :
         /\ enabled # SIMULATION_ENABLED
         /\ SIMULATION_ENABLED' = enabled
    /\ codec' = [codec EXCEPT !.calls = @ + 1, !.last = "set_simulation_mode",
                              !.result = Ok(<<>>)]
    /\ UNCHANGED ROBOCLAW
    /\ PortUnchanged

PortNext ==
    \/ PortConfigurePort
    \/ PortConfigureBaud
    \/ PortSetSimulationMode

SpecPort == PortInit /\ [][PortNext]_vars

(***************************************************************************)
(* The serial channel in Hardware mode, one exchange after another (the    *)
(* ROBOCLAW guard serialises them): the request written, the controller's  *)
(* reply on its way (wire.in_flight), the bytes that have arrived in the   *)
(* port's input buffer (wire.buffer), the single read.  Every byte carries *)
(* the number of the exchange whose request it answers.                    *)
(***************************************************************************)
\* most exchanges in one run
MaxExchanges == 3

\* the calls made: drive_simply_sync(speed, 1) and read_speed_sync(1)
WireCalls == {[op |-> "drive_simply", speed |-> 64], [op |-> "drive_simply", speed |-> 127],
              [op |-> "read_speed", speed |-> 0]}

\* the speed the controller reports once the motor runs at the commanded speed byte
DeviceSpeed(speed) == IF speed = 127 THEN <<0, 0, 3, 232, 0>> ELSE <<0, 0, 0, 0, 0>>

\* the controller's reply to the request of k: the acknowledgement byte of a drive
\* command, the framed speed of Read Speed M1
DeviceReply(k, speed) ==
    IF k.op = "drive_simply" THEN <<255>> ELSE Frame(RoboclawAddr, 18, DeviceSpeed(speed))

Tagged(bytes, ex) == [i \in 1..Len(bytes) |-> [ex |-> ex, byte |-> bytes[i]]]
Bytes(tagged) == [i \in 1..Len(tagged) |-> tagged[i].byte]
Tags(tagged) == {tagged[i].ex : i \in 1..Len(tagged)}

WireStart ==
    /\ SIMULATION_ENABLED = FALSE
    /\ ROBOCLAW = [addr |-> RoboclawAddr, port |-> TRUE, poisoned |-> FALSE]
    /\ device = DeviceInit
    /\ call = NoCall
    /\ SIM_STATE = SimStateInit
    /\ lock = LockInit
    /\ thread = ThreadsInit
    /\ codec = [stage |-> "wire", pending |-> FALSE, k |-> <<>>, speed |-> 64,
                read |-> {}]
    /\ wire = [exchange |-> 0, in_flight |-> <<>>, buffer |-> <<>>]

WireUnchanged == UNCHANGED <<SIMULATION_ENABLED, ROBOCLAW, device, SIM_STATE, lock, thread>>

\* send_serial_locked: port.write_all(data); the controller receives the request
\* and answers it
WireWrite ==
    /\ ~codec.pending
    /\ wire.exchange < MaxExchanges
    /\ \E k \in WireCalls :
         LET speed == IF k.op = "drive_simply" THEN k.speed ELSE codec.speed
         IN  /\ wire' = [wire EXCEPT
                   !.exchange = @ + 1,
                   !.in_flight = @ \o Tagged(DeviceReply(k, speed), wire.exchange + 1)]
             /\ codec' = [codec EXCEPT !.pending = TRUE, !.k = k, !.speed = speed]
    /\ call' = NoCall
    /\ WireUnchanged

\* bytes of the controller's replies reach the input buffer of the port
WireArrive ==
    /\ wire.in_flight # <<>>
    /\ \E n \in 1..Len(wire.in_flight) :
         wire' = [wire EXCEPT !.buffer = @ \o SubSeq(wire.in_flight, 1, n),
                              !.in_flight = SubSeq(@, n + 1, Len(@))]
    /\ UNCHANGED <<codec, call>>
    /\ WireUnchanged

\* read_serial_locked: the one port.read(&mut buf) of the exchange returns, with the
\* bytes in the input buffer, or with a timeout when there are none; then the
\* caller's checks of the response
WireRead ==
    /\ codec.pending
    /\ LET io == IF wire.buffer = <<>> THEN IoReadFails ELSE IoReply(Bytes(wire.buffer))
       IN  call' = IF codec.k.op = "drive_simply"
                   THEN drive_simply_sync(codec.k.speed, 1, ROBOCLAW, io)
                   ELSE read_speed_sync(1, ROBOCLAW, io, FALSE)
    /\ codec' = [codec EXCEPT !.pending = FALSE, !.read = Tags(wire.buffer)]
    /\ wire' = [wire EXCEPT !.buffer = <<>>]
    /\ WireUnchanged

WireNext ==
    \/ WireWrite
    \/ WireArrive
    \/ WireRead

SpecWire == WireStart /\ [][WireNext]_vars

(***************************************************************************)
(* The simulation step of lib.rs, which the simulated operations and the   *)
(* step-response and frequency-response experiments of lib.rs run, next to *)
(* the one of sim.rs under the same commands and elapsed times.  codec     *)
(* holds the Simulation State of lib.rs.                                   *)
(***************************************************************************)
\* lib.rs: SIM_STATE's initialiser (motor 1)
LibSimInit ==
    [m1_speed |-> 64, m1_pwm |-> 0, m1_mode_pwm |-> FALSE, m1_vel |-> 0,
     last_update |-> FALSE, tau_m1 |-> Ms(100), gain_m1 |-> 100]

\* lib.rs: gain * ((speed - 64) / 63).clamp(-1, 1), the open-loop command
lib_speed_target(sim) == MulDiv(Pps(sim.gain_m1), Clamp(sim.m1_speed - 64, -63, 63), 63)

\* lib.rs: sim_update(&mut sim), raw_dt after the update before
lib_sim_update(sim, raw_dt) ==
    LET dt == clamp_dt(raw_dt)
        target == IF sim.m1_mode_pwm THEN pwm_target(sim) ELSE lib_speed_target(sim)
        vels == sub_step_vels(sim.m1_vel, target, dt \div sub_steps(dt), sim.tau_m1,
                              sub_steps(dt))
    IN  IF ~sim.last_update \/ negligible(dt) THEN [sim EXCEPT !.last_update = TRUE]
        ELSE [sim EXCEPT !.m1_vel = vels[Len(vels)]]

LibSpeedBytes == {64, 96, 127}
LibDtSamples == {Ms(10), Ms(200)}

LibInit ==
    /\ SIMULATION_ENABLED = TRUE
    /\ ROBOCLAW = [addr |-> RoboclawAddr, port |-> FALSE, poisoned |-> FALSE]
    /\ device = DeviceInit
    /\ SIM_STATE \in {[SimPhysicsInit EXCEPT !.m1_velocity_pid = pid] : pid \in PidSamples}
    /\ codec = [stage |-> "lib", sim |-> LibSimInit, updates |-> 0]
    /\ call = NoCall
    /\ lock = LockInit
    /\ thread = ThreadsInit
    /\ wire = WireInit

\* drive_simply(speed, 1), simulated: lib.rs on its state, device.rs on SIM_STATE
LibDriveSimply ==
    /\ codec.updates < MaxUpdates
    /\ \E speed \in LibSpeedBytes, raw_dt \in LibDtSamples :
         /\ speed # SIM_STATE.m1_speed
         /\ SIM_STATE' = drive_simply_sim(sim_update(SIM_STATE, raw_dt), speed, 1)
         /\ codec' = [codec EXCEPT
                        !.sim = [lib_sim_update(@, raw_dt) EXCEPT !.m1_speed = speed,
                                                                   !.m1_mode_pwm = FALSE],
                        !.updates = @ + 1]
    /\ TwinUnchanged

\* read_speed(1), simulated: lib.rs on its state, device.rs on SIM_STATE
LibReadSpeed ==
    /\ codec.updates < MaxUpdates
    /\ \E raw_dt \in LibDtSamples :
         /\ SIM_STATE' = sim_update(SIM_STATE, raw_dt)
         /\ codec' = [codec EXCEPT !.sim = lib_sim_update(@, raw_dt), !.updates = @ + 1]
    /\ TwinUnchanged

LibNext ==
    \/ LibDriveSimply
    \/ LibReadSpeed

SpecLib == LibInit /\ [][LibNext]_vars

(***************************************************************************)
(* estimators.rs: estimate_tf_from_step_sync.  A sample is a record        *)
(* [t_ms, vel, cmd] with the time in milliseconds, the velocity in units   *)
(* of 1e-4 pulses per second and the command in tenths.  Sums and          *)
(* comparisons against the thresholds of the source are exact; logarithms  *)
(* and the regression are in fixed point (1e-4).                           *)
(***************************************************************************)
\* F applied to the value of v, v computed once
With(v, F(_)) == CHOOSE r \in {F(x) : x \in {v}} : TRUE

RECURSIVE SumOf(_, _)
SumOf(f, idx) ==
    IF idx = {} THEN 0
    ELSE CHOOSE s \in {f[i] + SumOf(f, idx \ {i}) : i \in {CHOOSE j \in idx : TRUE}} : TRUE

\* a * scale / b to the nearest integer (b > 0, scale <= 10000), a and b reduced
\* together until the division stays within 32 bits
RECURSIVE Quot(_, _, _)
Quot(a, b, scale) ==
    IF b > 100000 THEN Quot(a \div 10, b \div 10, scale)
    ELSE MulDiv(a, scale, b)

\* the position of the highest bit of d >= 1
RECURSIVE Log2Floor(_)
Log2Floor(d) == IF d < 2 THEN 0 ELSE 1 + Log2Floor(d \div 2)

\* f64::ln of the integer d >= 1, times 10000: d = m * 2^e with 1 <= m < 2,
\* ln d = e * ln 2 + 2 * atanh((m - 1) / (m + 1))
ln(d) ==
    LET e0 == Log2Floor(d)
        dd == IF e0 > 15 THEN d \div Pow2(e0 - 15) ELSE d
        e == IF e0 > 15 THEN 15 ELSE e0
    IN  With(MulDiv(dd - Pow2(e), 10000, dd + Pow2(e)), LAMBDA z :
        With((z * z) \div 10000, LAMBDA z2 :
        With((z2 * z) \div 10000, LAMBDA z3 :
        With((z3 * z2) \div 10000, LAMBDA z5 :
        With((z5 * z2) \div 10000, LAMBDA z7 :
            (e0 * 69315) \div 10 + 2 * (z + z3 \div 3 + z5 \div 5 + z7 \div 7))))))

\* any change of the command taken for the step
step_idx_any_change(samples) ==
    LET found == {i \in 1..Len(samples) : samples[i].cmd # samples[1].cmd}
    IN  IF found = {} THEN 0 ELSE CHOOSE i \in found : \A j \in found : i <= j

\* samples.iter().position(|s| (s.cmd - first_cmd).abs() > 0.5): 0 when there is none
step_idx(samples) ==
    LET found == {i \in 1..Len(samples) : Abs(samples[i].cmd - samples[1].cmd) > 5}
    IN  IF found = {} THEN 0 ELSE CHOOSE i \in found : \A j \in found : i <= j

\* (n as f64 * 0.8).floor(), as an index from 1 of the first tail sample
tail_start(samples) == ((4 * Len(samples)) \div 5) + 1

\* the result of the 63.2% heuristic: the first sample from the step on that is
\* within 1e-3 of y0 + 0.632 * (y_inf - y0), or beyond it in the direction of the
\* rise.  y0 = sp / np, y_inf = st / nt.
t63(samples, step, sp, np, st, nt) ==
    LET rise == st * np - sp * nt
        side(i) == 1000 * nt * (samples[i].vel * np - sp) - 632 * rise
        reached == {i \in step..Len(samples) :
                       \/ Abs(side(i)) <= 10 * nt * np * 1000
                       \/ rise > 0 /\ side(i) >= 0
                       \/ rise < 0 /\ side(i) <= 0}
    IN  IF reached = {} THEN -1
        ELSE samples[CHOOSE i \in reached : \A j \in reached : i <= j].t_ms - samples[step].t_ms

\* the regression of ln|y - y_inf| on t over the usable samples: tau_s in units of
\* 0.1 ms (-1.0 / 0.0 as the least integer), r2 in units of 1e-4
regression(samples, step, usable, st, nt) ==
    LET nln == Cardinality(usable)
        tvec == [i \in usable |-> 10 * (samples[i].t_ms - samples[step].t_ms)]
        lnys == [i \in usable |-> ln(Abs(samples[i].vel * nt - st)) - ln(nt * 10000)]
    IN  IF \A i \in usable, j \in usable : samples[i].t_ms = samples[j].t_ms
        THEN Err("Regression failed (denominator zero)")
        ELSE
        With(MulDiv(SumOf(tvec, usable), 1, nln), LAMBDA mean_t :
        With(MulDiv(SumOf(lnys, usable), 1, nln), LAMBDA mean_ln :
        With(SumOf([i \in usable |-> (tvec[i] - mean_t) * (lnys[i] - mean_ln)], usable), LAMBDA num :
        With(SumOf([i \in usable |-> (tvec[i] - mean_t) * (tvec[i] - mean_t)], usable), LAMBDA den :
        With(IF num < 0 THEN -Quot(-num, den, 10000) ELSE Quot(num, den, 10000), LAMBDA slope :
        With(SumOf([i \in usable |->
                      With(((lnys[i] - mean_ln) - (slope * (tvec[i] - mean_t)) \div 10000) \div 10,
                           LAMBDA res : res * res)], usable), LAMBDA ss_res :
        With(SumOf([i \in usable |->
                      With((lnys[i] - mean_ln) \div 10, LAMBDA dev : dev * dev)], usable), LAMBDA ss_tot :
            IF num = 0 THEN Ok([tau_s |-> I32Min, r2 |-> 0, fit |-> TRUE])
            ELSE Ok([tau_s |-> IF num < 0 THEN Quot(den, -num, 10000) ELSE -Quot(den, num, 10000),
                     r2 |-> IF ss_tot = 0 THEN 10000 ELSE 10000 - Quot(ss_res, ss_tot, 10000),
                     fit |-> TRUE]))))))))

\* the regression attempted on fewer than three usable samples too
usable_enough_always(usable) == Cardinality(usable) < 0

\* if lnys.len() < 3: the heuristic in place of the regression
too_few_usable(usable) == Cardinality(usable) < 3

\* estimate_tf_from_step_sync(samples).  In the Ok value K is the pair
\* <<numerator, denominator>> in 1e-3 pulses per second per unit of command,
\* tau_s is in units of 0.1 ms, and fit tells whether the r2 field is there.
estimate_tf_from_step_sync(samples) ==
    LET n == Len(samples)
        tail == tail_start(samples)..n
    IN  IF n < 5 THEN Err("Need at least 5 samples to estimate")
        ELSE
        With(step_idx(samples), LAMBDA step :
        IF step = 0 THEN Err("Could not locate step in samples")
        ELSE
        With(IF step = 1 THEN 1 ELSE step - 1, LAMBDA np :
        With(IF step = 1 THEN samples[1].vel
             ELSE SumOf([i \in 1..(step - 1) |-> samples[i].vel], 1..(step - 1)), LAMBDA sp :
        With(Cardinality(tail), LAMBDA nt :
        With(SumOf([i \in tail |-> samples[i].vel], tail), LAMBDA st :
        With(SumOf([i \in tail |-> samples[i].cmd], tail) - nt * samples[1].cmd, LAMBDA delta_cmd :
        IF delta_cmd = 0 THEN Err("Command change too small to estimate")
        ELSE
        With(<<st * np - sp * nt, np * delta_cmd>>, LAMBDA k :
        With({i \in step..n : samples[i].vel * nt # st}, LAMBDA usable :
        IF too_few_usable(usable)
        THEN With(t63(samples, step, sp, np, st, nt), LAMBDA heuristic :
                IF heuristic < 0 THEN Err("Insufficient data to estimate tau")
                ELSE Ok([K |-> k, tau_s |-> 10 * heuristic, r2 |-> 0, fit |-> FALSE]))
        ELSE With(regression(samples, step, usable, st, nt), LAMBDA fit :
                IF fit.tag = "Err" THEN fit
                ELSE Ok([K |-> k, tau_s |-> fit.val.tau_s, r2 |-> fit.val.r2,
                         fit |-> TRUE]))))))))))

(***************************************************************************)
(* The step estimator as a pure function.  Init draws the samples: short   *)
(* series of a few velocities and command shapes on a running or a stuck   *)
(* clock, and first-order step responses sampled over five time constants. *)
(***************************************************************************)
\* most samples in a drawn series
MaxStepLen == 6

\* velocities of the drawn series: 0, 0.6315 and 1 pulse per second
StepVelSamples == {0, 6315, 10000}

\* the commands of a series of n samples: a step of 0.4 or of 1.0 at sample k, or a
\* pulse of 1.0 at sample k only
StepCmdSeries(n) ==
    {[i \in 1..n |-> IF i >= k THEN c ELSE 0] : k \in 1..n, c \in {4, 10}}
        \cup {[i \in 1..n |-> IF i = k THEN 10 ELSE 0] : k \in 2..(n - 1)}

\* the sample times: one every 100 ms, or all the same
StepClocks(n) == {[i \in 1..n |-> 100 * (i - 1)], [i \in 1..n |-> 0]}

\* the series of n samples with times t, velocities v and commands c
StepSeries(n, t, v, c) == [i \in 1..n |-> [t_ms |-> t[i], vel |-> v[i], cmd |-> c[i]]]

\* exp(-k / 2) times 1e6, k = 0..10
ExpTable ==
    <<1000000, 606531, 367879, 223130, 135335, 82085, 49787, 30197, 18316, 11109, 6738>>

\* y(t) = y0 + (y_inf - y0) * (1 - exp(-t / tau)) sampled at intervals of tau / 2
\* (stride 1) or tau (stride 2) over [0, 5 tau], after npre samples at rest; the
\* command steps from 0 to 1.0 at t = 0
Synthetic(y0, y_inf, tau_ms, stride, npre) ==
    LET dt == (tau_ms * stride) \div 2
        npost == (10 \div stride) + 1
    IN  [i \in 1..(npre + npost) |->
            IF i <= npre THEN [t_ms |-> -dt * (npre + 1 - i), vel |-> y0, cmd |-> 0]
            ELSE [t_ms |-> dt * (i - npre - 1),
                  vel |-> y0 + MulDiv(1000000 - ExpTable[stride * (i - npre - 1) + 1], y_inf - y0,
                                      1000000),
                  cmd |-> 10]]

\* the responses drawn, each with the plant it was generated from
SyntheticInputs ==
    {[samples |-> Synthetic(y0, y_inf, tau_ms, stride, npre),
      truth |-> [synthetic |-> TRUE, rise |-> y_inf - y0, tau_ms |-> tau_ms]] :
        y0 \in {0, 200000}, y_inf \in {1000000, -500000}, tau_ms \in {100, 500},
        stride \in {1, 2}, npre \in {1, 5}}

StepInit ==
    /\ \/ \E x \in SyntheticInputs :
              codec = [stage |-> "samples", samples |-> x.samples, truth |-> x.truth,
                       out |-> NoResult]
       \/ \E n \in 4..MaxStepLen :
              \E t \in StepClocks(n), v \in [1..n -> StepVelSamples], c \in StepCmdSeries(n) :
                 codec = [stage |-> "samples", samples |-> StepSeries(n, t, v, c),
                          truth |-> [synthetic |-> FALSE, rise |-> 0, tau_ms |-> 0],
                          out |-> NoResult]
    /\ SIMULATION_ENABLED = FALSE
    /\ ROBOCLAW = [addr |-> RoboclawAddr, port |-> FALSE, poisoned |-> FALSE]
    /\ device = DeviceInit
    /\ call = NoCall
    /\ SIM_STATE = SimStateInit
    /\ lock = LockInit
    /\ thread = ThreadsInit
    /\ wire = WireInit

\* estimate_tf_from_step_sync(samples)
EstimateStep ==
    /\ codec.stage = "samples"
    /\ codec' = [codec EXCEPT !.stage = "estimated",
                              !.out = estimate_tf_from_step_sync(codec.samples)]
    /\ DriverUnchanged

StepNext == EstimateStep

SpecStep == StepInit /\ [][StepNext]_vars

(***************************************************************************)
(* Autotuning pipeline (spec 4.6): an experiment and its estimator, the    *)
(* IMC gain synthesis, and the optional write-back of the Velocity PID     *)
(* through the Driver.  Gains are fractions <<numerator, denominator>>,    *)
(* tau is in milliseconds, the lambda scale in hundredths.                 *)
(***************************************************************************)
\* set_velocity_pid_sync, simulated branch: the parameters stored in SIM_STATE
set_velocity_pid_sim(motor_index, params, sim) ==
    IF motor_index = 1 THEN [sim EXCEPT !.m1_velocity_pid = params]
    ELSE [sim EXCEPT !.m2_velocity_pid = params]

\* the Simulation State with the stored Velocity PID of both motors
AutotuneSimInit ==
    [SimPhysicsInit EXCEPT !.m2_speed = 64] @@
        [m2_velocity_pid |-> [p |-> 65536, i |-> 32768, d |-> 16384, qpps |-> 44000]]

\* clamp(scale in [0.05, 5.0], default 0.5); scale is <<>> when not given
lambda_scale(scale) == IF scale = <<>> THEN 50 ELSE Clamp(scale[1], 5, 500)

\* round(value * 65536) of value = 100 * qpps * den * mul / (num * 32767 * ls * div)
to_fixed_16_16(num, den, qpps, ls, mul, div) ==
    LET g == Gcd(mul, div)
        q == MulDiv(6553600 * den, qpps * (mul \div g), Abs(num) * 32767 * ls * (div \div g))
    IN  IF num < 0 THEN -q ELSE q

\* gain synthesis from the estimate [K, tau_ms] and the stored QPPS:
\* K_eff = K * 32767 / qpps, lambda = scale * tau, Kc = tau / (K_eff * lambda),
\* Ti = tau, Kd = 0; P = round(Kc * 65536), I = round(Kc / Ti * 65536)
synthesize_gains(est, qpps, scale) ==
    LET ls == lambda_scale(scale)
    IN  IF est.K[1] = 0 THEN Err("Estimated plant gain too small")
        ELSE IF ls * est.tau_ms <= 0 THEN Err("Invalid lambda")
        ELSE Ok([p |-> to_fixed_16_16(est.K[1], est.K[2], qpps, ls, 1, 1),
                 i |-> to_fixed_16_16(est.K[1], est.K[2], qpps, ls, 1000, est.tau_ms),
                 d |-> 0, qpps |-> qpps])

\* every request writes the gains back
write_back_always(request) == TRUE

\* the gains are written back when the request asks for it
write_back(request) == request.apply_result

\* what the experiment and its estimator can end with
EstimateOutcomes ==
    {Err("Experiment failed"), Err("Need at least 5 samples")}
        \cup {Ok([K |-> k, tau_ms |-> t]) : k \in {<<0, 1>>, <<44, 1>>, <<-11, 2>>},
                                            t \in {0, 100, 250}}

AutotuneRequests ==
    [motor_index : {1, 2}, experiment : {"step", "sweep"}, apply_result : BOOLEAN,
     lambda_scale : {<<>>, <<1>>, <<200>>}, qpps : {44000}]

AutotuneInit ==
    /\ codec \in {[stage |-> "requested", request |-> r, est |-> NoResult,
                   gains |-> NoResult, out |-> NoResult] : r \in AutotuneRequests}
    /\ SIMULATION_ENABLED \in BOOLEAN
    /\ ROBOCLAW \in {[addr |-> RoboclawAddr, port |-> o, poisoned |-> FALSE] : o \in BOOLEAN}
    /\ device = DeviceInit
    /\ call = NoCall
    /\ SIM_STATE = AutotuneSimInit
    /\ lock = LockInit
    /\ thread = ThreadsInit
    /\ wire = WireInit

\* the experiment runs and its samples go through the estimator
AutotuneEstimate ==
    /\ codec.stage = "requested"
    /\ \E est \in EstimateOutcomes :
         codec' = IF est.tag = "Ok" THEN [codec EXCEPT !.stage = "estimated", !.est = est]
                  ELSE [codec EXCEPT !.stage = "returned", !.est = est, !.out = est]
    /\ UNCHANGED <<SIMULATION_ENABLED, ROBOCLAW, device, call, SIM_STATE, lock, thread, wire>>

AutotuneSynthesize ==
    /\ codec.stage = "estimated"
    /\ LET gains == synthesize_gains(codec.est.val, codec.request.qpps,
                                     codec.request.lambda_scale)
       IN  codec' = IF gains.tag = "Ok"
                    THEN [codec EXCEPT !.stage = "synthesized", !.gains = gains]
                    ELSE [codec EXCEPT !.stage = "returned", !.gains = gains, !.out = gains]
    /\ UNCHANGED <<SIMULATION_ENABLED, ROBOCLAW, device, call, SIM_STATE, lock, thread, wire>>

\* the result of the run: the gains, whether a write was made and how it ended
AutotuneResult(gains, applied, apply_ok) ==
    Ok([gains |-> gains, applied |-> applied, apply_ok |-> apply_ok])

\* the write-back: set_velocity_pid(motor_index, gains) through the Driver
AutotuneApply ==
    /\ codec.stage = "synthesized"
    /\ write_back(codec.request)
    /\ LET m == codec.request.motor_index
           params == codec.gains.val
       IN  IF SIMULATION_ENABLED
           THEN /\ SIM_STATE' = set_velocity_pid_sim(m, params, SIM_STATE)
                /\ codec' = [codec EXCEPT !.stage = "returned",
                                          !.out = AutotuneResult(params, TRUE, TRUE)]
                /\ UNCHANGED <<ROBOCLAW, device, call>>
           ELSE \E io \in IoFor(IF m = 1 THEN 28 ELSE 29, {}) :
                  LET c == Locked("set_velocity_pid", m, params,
                                  set_velocity_pid_sync(m, params, ROBOCLAW, io))
                  IN  /\ Exchanged(c, io)
                      /\ codec' = [codec EXCEPT
                                     !.stage = "returned",
                                     !.out = AutotuneResult(params, TRUE, c.result.tag = "Ok")]
                      /\ UNCHANGED SIM_STATE
    /\ UNCHANGED <<SIMULATION_ENABLED, lock, thread, wire>>

\* no write-back asked for: the gains are reported only
AutotuneReport ==
    /\ codec.stage = "synthesized"
    /\ ~write_back(codec.request)
    /\ codec' = [codec EXCEPT !.stage = "returned",
                              !.out = AutotuneResult(codec.gains.val, FALSE, FALSE)]
    /\ UNCHANGED <<SIMULATION_ENABLED, ROBOCLAW, device, call, SIM_STATE, lock, thread, wire>>

AutotuneNext == AutotuneEstimate \/ AutotuneSynthesize \/ AutotuneApply \/ AutotuneReport

SpecAutotune == AutotuneInit /\ [][AutotuneNext]_vars

(***************************************************************************)
(* Worker threads.  Every entry point runs on a spawn_blocking worker; a   *)
(* step of a thread is one lock acquisition, one channel call, one store   *)
(* to the flag or one sleep, so that the steps of different threads        *)
(* interleave as the real ones do.                                         *)
(***************************************************************************)
\* most loop iterations (samples) of an experiment
MaxSamples == 3

\* run_frequency_response_async: n_samples = (...).max(3)
MinFrfSamples == 3

\* lock() that does not wait for the holder
mutex_free_always(owner) == owner = owner

\* Mutex::lock returns once no other thread holds the guard
mutex_free(owner) == owner = 0

\* a MutexGuard that is never dropped (mem::forget)
drop_guard_leaked(owner) == owner

\* a MutexGuard going out of scope releases the mutex
drop_guard(owner) == 0

\* is_simulation_enabled(): the backend the flag names
is_simulation_enabled(enabled) == IF enabled THEN "Simulated" ELSE "Hardware"

\* the hardware branch taken whatever the flag
branch_hardware(flag) == IF flag = flag THEN "hw" ELSE "sim"

\* if is_simulation_enabled() { simulated branch } else { hardware branch };
\* configure_port and configure_baud lock ROBOCLAW without reading the flag first
branch(flag) == IF flag = "Simulated" THEN "sim" ELSE "hw"

\* ROBOCLAW with an open channel
OpenHandle == [addr |-> RoboclawAddr, port |-> TRUE, poisoned |-> FALSE]

\* arguments of the calls the threads make: motor 1, stop / full speed, PWM off / full
ThreadMotors == {1}
ThreadSpeeds == {64, 127}
Args(motor, value) == [motor |-> motor, value |-> value]

\* the Driver calls the threads make, alone or from an experiment
ThreadCalls ==
    {[op |-> "drive_simply", args |-> Args(m, v)] : m \in ThreadMotors, v \in ThreadSpeeds}
    \cup {[op |-> "drive_pwm", args |-> Args(m, v)] : m \in ThreadMotors, v \in {0, 32767}}
    \cup {[op |-> "read_speed", args |-> Args(m, 0)] : m \in ThreadMotors}
    \cup {[op |-> "read_all_status", args |-> Args(0, 0)]}

\* the hardware branch of the call k meeting io
HwCall(k, io, overflow_checks) ==
    CASE k.op = "drive_simply" -> drive_simply_sync(k.args.value, k.args.motor, OpenHandle, io)
      [] k.op = "drive_pwm" -> drive_pwm_sync(k.args.value, k.args.motor, OpenHandle, io)
      [] k.op = "read_speed" -> read_speed_sync(k.args.motor, OpenHandle, io, overflow_checks)
      [] k.op = "read_all_status" -> read_all_status_sync(OpenHandle, io)

\* how port.read ended
GotOf(io) == IF ~io.read_ok THEN "error" ELSE IF io.bytes = <<>> THEN "zero" ELSE "bytes"

\* a result without its value
Outcome(r) == [r EXCEPT !.val = <<>>]

\* for each call, the ways its read and the decoding of what was read can end, over
\* every reply of the model: [got, result]
ReadOutcomes ==
    [k \in ThreadCalls |->
        {[got |-> GotOf(io), result |-> Outcome(HwCall(k, io, oc).result)] :
            io \in {x \in IoFor(HwCall(k, IoReadFails, FALSE).cmd, {}) : x.write_ok},
            oc \in BOOLEAN}]

\* the effect of the simulated branch of an operation on the command fields
SimEffect(op, args, sim) ==
    CASE op = "drive_simply" -> drive_simply_sim(sim, args.value, args.motor)
      [] op = "drive_pwm" -> drive_pwm_sim(sim, args.value, args.motor)
      [] op = "frf_command" ->
            IF args.motor = 1 THEN [sim EXCEPT !.m1_speed = args.value, !.m1_mode_pwm = FALSE]
            ELSE [sim EXCEPT !.m2_speed = args.value, !.m2_mode_pwm = FALSE]
      [] OTHER -> sim

\* a thread starts the Driver operation op
Invoke(th, op, args) ==
    [th EXCEPT !.op = op, !.args = args, !.pc = "entry", !.flag = "none",
               !.sent = "none", !.got = "none", !.n_write = 0, !.n_read = 0,
               !.result = NoResult, !.stored = "none"]

\* a thread that has just read the flag as Simulated goes on to lock SIM_STATE
\* (the blocks of an experiment that follow its own is_simulation_enabled())
InvokeSim(th, op, args) == [Invoke(th, op, args) EXCEPT !.pc = "lock", !.flag = "Simulated"]

\* configure_port / configure_baud: ROBOCLAW.lock() comes first
InvokeConfig(th, op, args) == [Invoke(th, op, args) EXCEPT !.pc = "lock"]

ConfigOps == {"configure_port", "configure_baud"}

Holds(t) == {m \in {"roboclaw", "sim"} : lock[m] = t}

\* no port name taken for the sentinel
is_simulated_port_never(port_name) == port_name # port_name

\* if port_name == SIMULATED_PORT
is_simulated_port(port_name) == port_name = SIMULATED_PORT

\* if is_simulation_enabled() ...: the first statement of a Driver operation
ReadFlag(t) ==
    /\ thread[t].pc = "entry"
    /\ thread' = [thread EXCEPT ![t].flag = is_simulation_enabled(SIMULATION_ENABLED), ![t].pc = "lock"]
    /\ UNCHANGED <<codec, SIMULATION_ENABLED, ROBOCLAW, device, call, SIM_STATE, lock, wire>>

\* SIM_STATE.lock() / ROBOCLAW.lock().map_err(..)?: blocks while another thread
\* holds the guard; on a poisoned ROBOCLAW returns the error, the guard dropped
AcquireLock(t) ==
    /\ thread[t].pc = "lock"
    /\ IF branch(thread[t].flag) = "sim"
       THEN /\ mutex_free(lock.sim)
            /\ lock' = [lock EXCEPT !.sim = t]
            /\ thread' = [thread EXCEPT ![t].pc = "sim_body"]
       ELSE /\ mutex_free(lock.roboclaw)
            /\ IF ROBOCLAW.poisoned
               THEN /\ thread' = [thread EXCEPT ![t].pc = "done",
                                                ![t].result = Err("Failed to acquire lock")]
                    /\ UNCHANGED lock
               ELSE /\ lock' = [lock EXCEPT !.roboclaw = t]
                    /\ thread' = [thread EXCEPT
                          ![t].pc = IF thread[t].op \in ConfigOps THEN "config" ELSE "write"]
    /\ UNCHANGED <<codec, SIMULATION_ENABLED, ROBOCLAW, device, call, SIM_STATE, wire>>

\* send_and_read, first half: send_serial_locked(roboclaw, data)?
WriteRequest(t) ==
    /\ thread[t].pc = "write"
    /\ \E ok \in BOOLEAN :
         LET io == [write_ok |-> ok, read_ok |-> TRUE, bytes |-> <<>>]
             sent == send_serial_locked(ROBOCLAW, io)
             th == [thread[t] EXCEPT
                       !.n_write = IF ROBOCLAW.port THEN @ + 1 ELSE @,
                       !.sent = IF ~ROBOCLAW.port THEN "absent"
                                ELSE IF ok THEN "ok" ELSE "failed"]
         IN  /\ wire' = IF ROBOCLAW.port
                        THEN [exchange |-> IF sent.tag = "Ok" THEN t ELSE wire.exchange,
                              interleaved |-> wire.interleaved \/ wire.exchange \notin {0, t}]
                        ELSE wire
             /\ IF sent.tag = "Ok"
                THEN /\ thread' = [thread EXCEPT ![t] = [th EXCEPT !.pc = "read"]]
                     /\ UNCHANGED lock
                ELSE /\ thread' = [thread EXCEPT ![t] = [th EXCEPT !.pc = "done", !.result = sent]]
                     /\ lock' = [lock EXCEPT !.roboclaw = drop_guard(@)]
    /\ UNCHANGED <<codec, SIMULATION_ENABLED, ROBOCLAW, device, call, SIM_STATE>>

\* send_and_read, second half: read_serial_locked(roboclaw), then the decoding of
\* the response; a panic unwinds through the guard and poisons ROBOCLAW
ReadResponse(t) ==
    /\ thread[t].pc = "read"
    /\ \E e \in ReadOutcomes[[op |-> thread[t].op, args |-> thread[t].args]] :
         /\ thread' = [thread EXCEPT ![t].pc = "done", ![t].n_read = @ + 1,
                                     ![t].got = e.got, ![t].result = e.result]
         /\ ROBOCLAW' = [ROBOCLAW EXCEPT !.poisoned = @ \/ e.result.tag = "Panic"]
    /\ wire' = [exchange |-> IF wire.exchange = t THEN 0 ELSE wire.exchange,
                interleaved |-> wire.interleaved \/ wire.exchange \notin {0, t}]
    /\ lock' = [lock EXCEPT !.roboclaw = drop_guard(@)]
    /\ UNCHANGED <<codec, SIMULATION_ENABLED, device, call, SIM_STATE>>

\* the simulated branch under the SIM_STATE guard: sim_update, the command fields,
\* return
SimBody(t) ==
    /\ thread[t].pc = "sim_body"
    /\ SIM_STATE' = SimEffect(thread[t].op, thread[t].args, SIM_STATE)
    /\ thread' = [thread EXCEPT ![t].pc = "done", ![t].result = Ok(<<>>)]
    /\ lock' = [lock EXCEPT !.sim = drop_guard(@)]
    /\ UNCHANGED <<codec, SIMULATION_ENABLED, ROBOCLAW, device, call, wire>>

\* configure_port_sync under the guard, up to the store to the flag
ConfigurePortStore(t) ==
    /\ thread[t].pc = "config"
    /\ thread[t].op = "configure_port"
    /\ SIMULATION_ENABLED' = is_simulated_port(thread[t].args.value)
    /\ thread' = [thread EXCEPT
          ![t].pc = "open",
          ![t].stored = is_simulation_enabled(is_simulated_port(thread[t].args.value))]
    /\ UNCHANGED <<codec, ROBOCLAW, device, call, SIM_STATE, lock, wire>>

\* configure_port_sync, the rest: the old channel is dropped, and unless the name
\* is the sentinel the port is opened, which may fail
ConfigurePortOpen(t) ==
    /\ thread[t].pc = "open"
    /\ \E opened \in BOOLEAN :
         LET sentinel == is_simulated_port(thread[t].args.value)
         IN  /\ ROBOCLAW' = [ROBOCLAW EXCEPT !.port = ~sentinel /\ opened]
             /\ thread' = [thread EXCEPT
                   ![t].pc = "done",
                   ![t].result = IF sentinel \/ opened THEN Ok(<<>>)
                                 ELSE Err("Failed to open port")]
    /\ lock' = [lock EXCEPT !.roboclaw = drop_guard(@)]
    /\ UNCHANGED <<codec, SIMULATION_ENABLED, device, call, SIM_STATE, wire>>

\* configure_baud_sync under the guard: nothing reopened in Simulated mode, else
\* the port reopened, the old channel kept if that fails
ConfigureBaud(t) ==
    /\ thread[t].pc = "config"
    /\ thread[t].op = "configure_baud"
    /\ \E opened \in BOOLEAN :
         /\ ROBOCLAW' = [ROBOCLAW EXCEPT
               !.port = IF SIMULATION_ENABLED THEN @ ELSE (opened \/ @)]
         /\ thread' = [thread EXCEPT
               ![t].pc = "done",
               ![t].flag = is_simulation_enabled(SIMULATION_ENABLED),
               ![t].result = IF SIMULATION_ENABLED \/ opened THEN Ok(<<>>)
                             ELSE Err("Failed to reopen port")]
    /\ lock' = [lock EXCEPT !.roboclaw = drop_guard(@)]
    /\ UNCHANGED <<codec, SIMULATION_ENABLED, device, call, SIM_STATE, wire>>

\* set_simulation_mode_sync(enabled): one store, no lock
SetSimulationMode(t) ==
    /\ thread[t].exp = "none" /\ thread[t].pc = "idle"
    /\ \E enabled \in BOOLEAN :
         SIMULATION_ENABLED' = enabled
    /\ UNCHANGED <<codec, ROBOCLAW, device, call, SIM_STATE, lock, thread, wire>>

\* the result of a Driver operation taken by its caller
Consumed(th) ==
    [th EXCEPT !.op = "none", !.args = <<>>, !.pc = "idle", !.flag = "none",
               !.sent = "none", !.got = "none", !.n_write = 0, !.n_read = 0,
               !.result = NoResult, !.stored = "none"]

\* an experiment returns r
Finished(th, r) == [Consumed(th) EXCEPT !.at = "finished", !.exp_result = r]

\* an error a call inside an experiment came back with, on the experiment's record
Failed(th) ==
    LET locking == th.result.msg = "Failed to acquire lock"
    IN  [th EXCEPT !.lock_failed = @ \/ locking,
                   !.read_failed = @ \/ (~locking /\ th.op \in {"read_speed", "read_all_status"})]

\* a panic inside the spawn_blocking closure of a command handler of lib.rs
JoinError == Err("Failed to join")

\* the threads that run experiments, and those that make single calls
Experimenters == {1}
Callers == {2}

PortNames == {SIMULATED_PORT, "/dev/ttyACM0"}

\* duration_ms of measure_qpps, sampled every 100 ms
SampleInterval == 100
Durations == {SampleInterval * n : n \in 1..MaxSamples}

\* the labels at which a thread is inside thread::sleep
SleepLabels ==
    {"mq_sim_sleep", "mq_hw_settle", "mq_hw_sleep", "sr_settle", "sr_sleep",
     "sd_settle", "sd_sleep", "fr_settle", "fr_sleep"}

IdleThread(t) == thread[t].exp = "none" /\ thread[t].pc = "idle"

ThreadUnchanged == UNCHANGED <<codec, SIMULATION_ENABLED, ROBOCLAW, device, call, SIM_STATE, lock, wire>>

(***************************************************************************)
(* Single calls: device.rs *_sync / lib.rs commands on a worker thread     *)
(***************************************************************************)
StartCall(t) ==
    /\ IdleThread(t)
    /\ \E k \in {c \in ThreadCalls : c.op = "read_speed"} :
         thread' = [thread EXCEPT ![t] = Invoke(@, k.op, k.args)]
    /\ ThreadUnchanged

StartConfigurePort(t) ==
    /\ IdleThread(t)
    /\ \E name \in PortNames :
         thread' = [thread EXCEPT ![t] = InvokeConfig(@, "configure_port", Args(0, name))]
    /\ ThreadUnchanged

StartConfigureBaud(t) ==
    /\ IdleThread(t)
    /\ thread' = [thread EXCEPT ![t] = InvokeConfig(@, "configure_baud", Args(0, 0))]
    /\ ThreadUnchanged

Return(t) ==
    /\ thread[t].exp = "none" /\ thread[t].pc = "done"
    /\ thread' = [thread EXCEPT ![t] = Consumed(@)]
    /\ ThreadUnchanged

(***************************************************************************)
(* measure_qpps_sync(motor_index, duration_ms)                             *)
(***************************************************************************)
\* what measure_qpps_sync keeps across its loop: its arguments, prev_pwm and
\* prev_mode, and whether its full-PWM command is still in force on the controller
\* (hw_on) or was given to the simulation (sim_on)
MqSaved(motor_index, duration_ms) ==
    [motor |-> motor_index, value |-> duration_ms, pwm |-> 0, mode |-> FALSE,
     hw_on |-> FALSE, sim_on |-> FALSE]

\* the duration accepted whatever its length
duration_too_short_never(duration_ms) == duration_ms < 0

\* if duration_ms < 200 { return Err(..) }
duration_too_short(duration_ms) == duration_ms < 200

\* the samples not counted
qpps_result_uncounted(samples) ==
    IF samples < 0 THEN Err("Not enough encoder samples") ELSE Ok(<<>>)

\* if encoder_samples.len() < 2 { return Err(..) }, else the median is returned
qpps_result(samples) ==
    IF samples < 2 THEN Err("Not enough encoder samples") ELSE Ok(<<>>)

\* the drive_pwm_sync(pwm, ..) call of thread th has returned: where its command went
PwmCommanded(th, pwm) ==
    [th.saved EXCEPT
        !.hw_on = IF th.flag = "Hardware" /\ th.sent = "ok" THEN pwm # 0 ELSE @,
        !.sim_on = @ \/ (th.flag = "Simulated" /\ pwm # 0)]

MqStart(t) ==
    /\ IdleThread(t)
    /\ \E d \in Durations, m \in ThreadMotors :
         LET th == [thread[t] EXCEPT !.exp = "measure_qpps", !.left = d \div SampleInterval,
                                     !.args = Args(m, d), !.saved = MqSaved(m, d)]
         IN  thread' = [thread EXCEPT ![t] =
                 IF duration_too_short(d) THEN Finished(th, Err("duration_ms must be >= 200"))
                 ELSE IF SIMULATION_ENABLED
                 THEN [th EXCEPT !.at = "mq_sim_lock", !.flag = "Simulated"]
                 ELSE [Invoke(th, "drive_pwm", Args(m, 32767)) EXCEPT !.at = "mq_hw_on"]]
    /\ ThreadUnchanged

\* SIM_STATE.lock(), full PWM, and the first pass of the loop up to its sleep
MqSimLock(t) ==
    /\ thread[t].at = "mq_sim_lock"
    /\ mutex_free(lock.sim)
    /\ lock' = [lock EXCEPT !.sim = t]
    /\ SIM_STATE' = [SIM_STATE EXCEPT !.m1_pwm = 32767, !.m1_mode_pwm = TRUE]
    /\ thread' = [thread EXCEPT ![t].at = "mq_sim_sleep", ![t].samples = 1,
                                ![t].saved.pwm = SIM_STATE.m1_pwm,
                                ![t].saved.mode = SIM_STATE.m1_mode_pwm,
                                ![t].saved.sim_on = TRUE]
    /\ UNCHANGED <<codec, SIMULATION_ENABLED, ROBOCLAW, device, call, wire>>

\* the sleep ends: the next pass of the loop, or the restore and the return, where
\* the guard is dropped
MqSimWake(t) ==
    /\ thread[t].at = "mq_sim_sleep"
    /\ IF thread[t].left > 1
       THEN /\ thread' = [thread EXCEPT ![t].left = @ - 1, ![t].samples = @ + 1]
            /\ UNCHANGED <<SIM_STATE, lock>>
       ELSE /\ SIM_STATE' = [SIM_STATE EXCEPT !.m1_pwm = thread[t].saved.pwm,
                                              !.m1_mode_pwm = thread[t].saved.mode]
            /\ lock' = [lock EXCEPT !.sim = drop_guard(@)]
            /\ thread' = [thread EXCEPT ![t] = Finished(@, qpps_result(thread[t].samples))]
    /\ UNCHANGED <<codec, SIMULATION_ENABLED, ROBOCLAW, device, call, wire>>

\* drive_pwm_sync(32767, motor_index)?; then the 500 ms sleep
MqHwOn(t) ==
    /\ thread[t].at = "mq_hw_on" /\ thread[t].pc = "done"
    /\ LET th == [thread[t] EXCEPT !.saved = PwmCommanded(thread[t], 32767)]
       IN  thread' = [thread EXCEPT ![t] =
              IF th.result.tag = "Ok" THEN [Consumed(th) EXCEPT !.at = "mq_hw_settle"]
              ELSE Finished(Failed(th), th.result)]
    /\ ThreadUnchanged

\* a sleep of the hardware branch ends: read_all_status_sync() while time is left,
\* else drive_pwm_sync(0, motor_index)
MqHwWake(t) ==
    /\ thread[t].at \in {"mq_hw_settle", "mq_hw_sleep"}
    /\ thread' = [thread EXCEPT ![t] =
          IF thread[t].left > 0
          THEN [Invoke(@, "read_all_status", Args(0, 0)) EXCEPT !.at = "mq_hw_read"]
          ELSE [Invoke(@, "drive_pwm", Args(thread[t].saved.motor, 0)) EXCEPT !.at = "mq_hw_off"]]
    /\ ThreadUnchanged

\* match read_all_status_sync(): Ok pushes a sample, Err is printed; then the sleep
MqHwRead(t) ==
    /\ thread[t].at = "mq_hw_read" /\ thread[t].pc = "done"
    /\ thread' = [thread EXCEPT ![t] =
          CASE thread[t].result.tag = "Ok" ->
                 [Consumed(@) EXCEPT !.at = "mq_hw_sleep", !.left = @ - 1, !.samples = @ + 1]
            [] thread[t].result.tag = "Err" ->
                 [Consumed(Failed(@)) EXCEPT !.at = "mq_hw_sleep", !.left = @ - 1]
            [] OTHER -> Finished(@, thread[t].result)]
    /\ ThreadUnchanged

\* drive_pwm_sync(0, motor_index)?; then the count of the samples
MqHwOff(t) ==
    /\ thread[t].at = "mq_hw_off" /\ thread[t].pc = "done"
    /\ LET th == [thread[t] EXCEPT !.saved = PwmCommanded(thread[t], 0)]
       IN  thread' = [thread EXCEPT ![t] =
              IF th.result.tag # "Ok" THEN Finished(Failed(th), th.result)
              ELSE Finished(th, qpps_result(th.samples))]
    /\ ThreadUnchanged

(***************************************************************************)
(* lib.rs run_step_response_async: the step response of the simulation     *)
(***************************************************************************)
SrStart(t) ==
    /\ IdleThread(t)
    /\ \E n \in 1..MaxSamples, m \in ThreadMotors :
         LET th == [thread[t] EXCEPT !.exp = "step_response", !.left = n, !.args = Args(m, 127)]
         IN  thread' = [thread EXCEPT ![t] =
                 IF ~SIMULATION_ENABLED THEN Finished(th, Err("Simulation mode not enabled"))
                 ELSE [th EXCEPT !.at = "sr_lock", !.flag = "Simulated"]]
    /\ ThreadUnchanged

\* SIM_STATE.lock(), the state initialised, then the settle sleep
SrLock(t) ==
    /\ thread[t].at = "sr_lock"
    /\ mutex_free(lock.sim)
    /\ lock' = [lock EXCEPT !.sim = t]
    /\ SIM_STATE' = SimStateInit
    /\ thread' = [thread EXCEPT ![t].at = "sr_settle"]
    /\ UNCHANGED <<codec, SIMULATION_ENABLED, ROBOCLAW, device, call, wire>>

\* a sleep ends: one more sample, the step applied once its time has come, or past
\* end_time the stop, the return and the guard dropped
SrWake(t) ==
    /\ thread[t].at \in {"sr_settle", "sr_sleep"}
    /\ IF thread[t].left > 0
       THEN \E reached \in BOOLEAN :
              LET applied == thread[t].applied \/ reached
              IN  /\ SIM_STATE' = IF applied
                                  THEN [SIM_STATE EXCEPT !.m1_speed = thread[t].args.value,
                                                         !.m1_mode_pwm = FALSE]
                                  ELSE SIM_STATE
                  /\ thread' = [thread EXCEPT ![t].applied = applied, ![t].left = @ - 1,
                                              ![t].at = "sr_sleep"]
                  /\ UNCHANGED lock
       ELSE /\ SIM_STATE' = [SIM_STATE EXCEPT !.m1_speed = 64]
            /\ lock' = [lock EXCEPT !.sim = drop_guard(@)]
            /\ thread' = [thread EXCEPT ![t] = Finished(@, Ok(<<>>))]
    /\ UNCHANGED <<codec, SIMULATION_ENABLED, ROBOCLAW, device, call, wire>>

(***************************************************************************)
(* lib.rs run_step_response_device_async: the step response of the device  *)
(***************************************************************************)
SdStart(t) ==
    /\ IdleThread(t)
    /\ \E n \in 1..MaxSamples, m \in ThreadMotors :
         LET th == [thread[t] EXCEPT !.exp = "step_device", !.left = n, !.saved = Args(m, 127)]
         IN  thread' = [thread EXCEPT ![t] =
                 IF SIMULATION_ENABLED
                 THEN Finished(th, Err("Simulation mode is enabled; disable to run on device"))
                 ELSE [Invoke(th, "drive_simply", Args(m, 64)) EXCEPT !.at = "sd_stop"]]
    /\ ThreadUnchanged

\* drive_simply(64, motor_index)?; then the settle sleep
SdStopped(t) ==
    /\ thread[t].at = "sd_stop" /\ thread[t].pc = "done"
    /\ thread' = [thread EXCEPT ![t] =
          IF thread[t].result.tag = "Ok" THEN [Consumed(@) EXCEPT !.at = "sd_settle"]
          ELSE Finished(Failed(@), thread[t].result)]
    /\ ThreadUnchanged

\* a sleep ends: before end_time the step is sent once its time has come and the
\* speed is read; past end_time the stop is sent
SdWake(t) ==
    /\ thread[t].at \in {"sd_settle", "sd_sleep"}
    /\ \E reached \in BOOLEAN :
         thread' = [thread EXCEPT ![t] =
            IF thread[t].left = 0
            THEN [Invoke(@, "drive_simply", Args(thread[t].saved.motor, 64)) EXCEPT !.at = "sd_end"]
            ELSE IF ~thread[t].applied /\ reached
            THEN [Invoke(@, "drive_simply", thread[t].saved) EXCEPT !.at = "sd_apply"]
            ELSE [Invoke(@, "read_speed", Args(thread[t].saved.motor, 0)) EXCEPT !.at = "sd_read"]]
    /\ ThreadUnchanged

\* drive_simply(step_value, motor_index)?; applied = true; then read_speed
SdApplied(t) ==
    /\ thread[t].at = "sd_apply" /\ thread[t].pc = "done"
    /\ thread' = [thread EXCEPT ![t] =
          IF thread[t].result.tag = "Ok"
          THEN [Invoke(@, "read_speed", Args(thread[t].saved.motor, 0)) EXCEPT
                   !.at = "sd_read", !.applied = TRUE]
          ELSE Finished(Failed(@), thread[t].result)]
    /\ ThreadUnchanged

\* match read_speed(motor_index): Ok(v) => v, Err(e) => -9999; the sample is
\* pushed; then the sleep
SdRead(t) ==
    /\ thread[t].at = "sd_read" /\ thread[t].pc = "done"
    /\ thread' = [thread EXCEPT ![t] =
          CASE thread[t].result.tag = "Ok" ->
                 [Consumed(@) EXCEPT !.at = "sd_sleep", !.left = @ - 1]
            [] thread[t].result.tag = "Err" ->
                 [Consumed(Failed(@)) EXCEPT !.at = "sd_sleep", !.left = @ - 1]
            [] OTHER -> Finished(@, JoinError)]
    /\ ThreadUnchanged

\* drive_simply(64, motor_index)?; Ok(results)
SdEnd(t) ==
    /\ thread[t].at = "sd_end" /\ thread[t].pc = "done"
    /\ thread' = [thread EXCEPT ![t] =
          IF thread[t].result.tag = "Ok" THEN Finished(@, Ok(<<>>))
          ELSE Finished(Failed(@), thread[t].result)]
    /\ ThreadUnchanged

(***************************************************************************)
(* lib.rs run_frequency_response_async, one frequency                      *)
(***************************************************************************)
FrStart(t) ==
    /\ IdleThread(t)
    /\ \E points \in {0, 1}, n \in MinFrfSamples..MaxSamples, m \in ThreadMotors :
         LET th == [thread[t] EXCEPT !.exp = "frequency_response", !.left = n,
                                     !.saved = Args(m, 127)]
         IN  thread' = [thread EXCEPT ![t] =
                 IF points = 0 THEN Finished(th, Err("points must be > 0"))
                 ELSE [th EXCEPT !.at = "fr_settle"]]
    /\ ThreadUnchanged

\* a sleep ends: the command of the next sample goes to the backend the flag
\* names; after the last sample the gain is read from SIM_STATE in Simulated mode
FrWake(t) ==
    /\ thread[t].at \in {"fr_settle", "fr_sleep"}
    /\ thread' = [thread EXCEPT ![t] =
          IF thread[t].left > 0
          THEN IF SIMULATION_ENABLED
               THEN [InvokeSim(@, "frf_command", thread[t].saved) EXCEPT !.at = "fr_command"]
               ELSE [Invoke(@, "drive_simply", thread[t].saved) EXCEPT !.at = "fr_command"]
          ELSE IF SIMULATION_ENABLED
               THEN [InvokeSim(@, "frf_gain", thread[t].saved) EXCEPT !.at = "fr_gain"]
               ELSE Finished(@, Ok(<<>>))]
    /\ ThreadUnchanged

\* the command is out (drive_simply(cmdu, motor_index)? on the device); read_speed
FrCommanded(t) ==
    /\ thread[t].at = "fr_command" /\ thread[t].pc = "done"
    /\ thread' = [thread EXCEPT ![t] =
          IF thread[t].result.tag = "Ok"
          THEN [Invoke(@, "read_speed", Args(thread[t].saved.motor, 0)) EXCEPT !.at = "fr_read"]
          ELSE Finished(Failed(@), thread[t].result)]
    /\ ThreadUnchanged

\* match read_speed(motor_index): Ok(v) => v, Err(_) => 0.0; the projection is
\* accumulated; then the sleep
FrRead(t) ==
    /\ thread[t].at = "fr_read" /\ thread[t].pc = "done"
    /\ thread' = [thread EXCEPT ![t] =
          CASE thread[t].result.tag = "Ok" ->
                 [Consumed(@) EXCEPT !.at = "fr_sleep", !.left = @ - 1]
            [] thread[t].result.tag = "Err" ->
                 [Consumed(Failed(@)) EXCEPT !.at = "fr_sleep", !.left = @ - 1]
            [] OTHER -> Finished(@, JoinError)]
    /\ ThreadUnchanged

\* the gain was read; Ok(results)
FrGain(t) ==
    /\ thread[t].at = "fr_gain" /\ thread[t].pc = "done"
    /\ thread' = [thread EXCEPT ![t] = Finished(@, Ok(<<>>))]
    /\ ThreadUnchanged

\* the caller takes the experiment's result
ExpReturn(t) ==
    /\ thread[t].at = "finished"
    /\ thread' = [thread EXCEPT ![t] = ThreadIdle]
    /\ ThreadUnchanged

(***************************************************************************)
(* Thread specification                                                    *)
(***************************************************************************)
\* ROBOCLAW is initialised on first use, where the default port may or may not open
ThreadsStart ==
    /\ codec = CodecIdle
    /\ SIMULATION_ENABLED = FALSE
    /\ ROBOCLAW \in {[addr |-> RoboclawAddr, port |-> o, poisoned |-> FALSE] : o \in BOOLEAN}
    /\ device = DeviceInit
    /\ call = NoCall
    /\ SIM_STATE = SimStateInit
    /\ lock = LockInit
    /\ thread = ThreadsInit
    /\ wire = WireInit

ThreadsNext ==
    \/ \E t \in Threads : ReadFlag(t)
    \/ \E t \in Threads : AcquireLock(t)
    \/ \E t \in Threads : WriteRequest(t)
    \/ \E t \in Threads : ReadResponse(t)
    \/ \E t \in Threads : SimBody(t)
    \/ \E t \in Callers : StartCall(t)
    \/ \E t \in Callers : StartConfigurePort(t)
    \/ \E t \in Callers : StartConfigureBaud(t)
    \/ \E t \in Threads : ConfigurePortStore(t)
    \/ \E t \in Threads : ConfigurePortOpen(t)
    \/ \E t \in Threads : ConfigureBaud(t)
    \/ \E t \in Threads : SetSimulationMode(t)
    \/ \E t \in Threads : Return(t)
    \/ \E t \in Experimenters : MqStart(t)
    \/ \E t \in Threads : MqSimLock(t)
    \/ \E t \in Threads : MqSimWake(t)
    \/ \E t \in Threads : MqHwOn(t)
    \/ \E t \in Threads : MqHwWake(t)
    \/ \E t \in Threads : MqHwRead(t)
    \/ \E t \in Threads : MqHwOff(t)
    \/ \E t \in Experimenters : SrStart(t)
    \/ \E t \in Threads : SrLock(t)
    \/ \E t \in Threads : SrWake(t)
    \/ \E t \in Experimenters : SdStart(t)
    \/ \E t \in Threads : SdStopped(t)
    \/ \E t \in Threads : SdWake(t)
    \/ \E t \in Threads : SdApplied(t)
    \/ \E t \in Threads : SdRead(t)
    \/ \E t \in Threads : SdEnd(t)
    \/ \E t \in Experimenters : FrStart(t)
    \/ \E t \in Threads : FrWake(t)
    \/ \E t \in Threads : FrCommanded(t)
    \/ \E t \in Threads : FrRead(t)
    \/ \E t \in Threads : FrGain(t)
    \/ \E t \in Threads : ExpReturn(t)

SpecThreads == ThreadsStart /\ [][ThreadsNext]_vars

\* the steps thread t takes once a call or an experiment was invoked on it: the
\* code between invocation and return, and the caller taking the result
ThreadRuns(t) ==
    \/ ReadFlag(t) \/ WriteRequest(t) \/ ReadResponse(t) \/ SimBody(t)
    \/ ConfigurePortStore(t) \/ ConfigurePortOpen(t) \/ ConfigureBaud(t)
    \/ Return(t)
    \/ MqSimWake(t) \/ MqHwOn(t) \/ MqHwWake(t) \/ MqHwRead(t) \/ MqHwOff(t)
    \/ SrWake(t)
    \/ SdStopped(t) \/ SdWake(t) \/ SdApplied(t) \/ SdRead(t) \/ SdEnd(t)
    \/ FrWake(t) \/ FrCommanded(t) \/ FrRead(t) \/ FrGain(t)
    \/ ExpReturn(t)

\* Mutex::lock() returning to thread t
ThreadLocks(t) == AcquireLock(t) \/ MqSimLock(t) \/ SrLock(t)

\* the experiments of the thread specification
Experiments == {"measure_qpps", "step_response", "step_device", "frequency_response"}

\* A run under fair scheduling: the experimenter runs one of the experiments, again
\* and again, next to every call of the other thread; codec names the experiment.
FairStart ==
    /\ codec \in {[stage |-> "fair", exp |-> e] : e \in Experiments}
    /\ SIMULATION_ENABLED = FALSE
    /\ ROBOCLAW \in {[addr |-> RoboclawAddr, port |-> o, poisoned |-> FALSE] : o \in BOOLEAN}
    /\ device = DeviceInit
    /\ call = NoCall
    /\ SIM_STATE = SimStateInit
    /\ lock = LockInit
    /\ thread = ThreadsInit
    /\ wire = WireInit

\* no panic under the ROBOCLAW guard: the lock is never poisoned
FairNext ==
    /\ ThreadsNext
    /\ ~ROBOCLAW'.poisoned
    /\ \A t \in Threads : thread'[t].exp \in {"none", codec.exp}

\* Fair scheduling: a thread that can run does run, and a thread blocked in
\* Mutex::lock() gets the mutex if it is free again and again.
SpecThreadsFair ==
    /\ FairStart
    /\ [][FairNext]_vars
    /\ \A t \in Threads : WF_vars(ThreadRuns(t)) /\ SF_vars(ThreadLocks(t))

(***************************************************************************)
(* CRC-16/XMODEM by its definition: the remainder of message * x^16        *)
(* divided by x^16 + x^12 + x^5 + 1 over GF(2), bits taken MSB first,      *)
(* register starting at 0.                                                 *)
(***************************************************************************)
MsgBits(data) ==
    [j \in 1..(8 * Len(data)) |->
        (data[((j - 1) \div 8) + 1] \div Pow2(7 - ((j - 1) % 8))) % 2]

RECURSIVE PolyRem(_, _, _)
PolyRem(reg, bits, i) ==
    IF i > Len(bits) THEN reg
    ELSE LET r == (2 * reg) + bits[i]
             next == IF r >= 65536 THEN Xor1021(r - 65536) ELSE r
         IN  IF next >= 0 THEN PolyRem(next, bits, i + 1) ELSE 0

RefCrc(data) == PolyRem(0, MsgBits(data) \o [j \in 1..16 |-> 0], 1)

(***************************************************************************)
(* Claims on the codec                                                     *)
(***************************************************************************)
\* C1: parse_response(resp, addr, cmd) returns an error for every resp shorter
\* than 3 bytes; for resp of length >= 3 it succeeds if and only if the last two
\* bytes, read big-endian, equal calc_crc([addr, cmd] ++ resp[0..len-2]), and on
\* success it returns exactly resp[0..len-2].
C1_ParseResponseContract ==
    codec.stage \in {"parsed", "parsedFlipped"} =>
        LET resp == codec.resp
            n == Len(resp)
        IN  /\ codec.out.tag \in {"Ok", "Err"}
            /\ n < 3 => codec.out.tag = "Err"
            /\ n >= 3 =>
                 LET payload == SubSeq(resp, 1, n - 2)
                     trailing == (resp[n - 1] * 256) + resp[n]
                     expected == calc_crc(<<codec.vaddr, codec.vcmd>> \o payload)
                 IN  /\ (codec.out.tag = "Ok") <=> (trailing = expected)
                     /\ codec.out.tag = "Ok" => codec.out.val = payload

C1_Witness ==
    /\ codec.stage = "parsed"
    /\ Len(codec.resp) = 5
    /\ codec.out = Ok(SubSeq(codec.resp, 1, 3))

\* C2: for a frame payload ++ crc16 that parse_response accepts, inverting any
\* single bit of the frame, or of the addr or cmd used for validation, makes
\* parse_response return a CRC error.
C2_SingleBitFlipDetected ==
    codec.stage = "parsedFlipped" => codec.out = Err("CRC mismatch")

C2_Witness ==
    /\ codec.stage = "parsedFlipped"
    /\ codec.vaddr # codec.addr
    /\ Len(codec.data) = MaxLen
    /\ codec.out = Err("CRC mismatch")

\* C3: calc_crc is the CCITT/XMODEM CRC16 (seed 0, polynomial 0x1021, MSB first,
\* a 16-bit value) of every byte sequence; calc_crc of the empty sequence is 0,
\* and of "123456789" the catalogue check value 0x31C3.
C3_CalcCrcIsXmodem ==
    codec.stage = "crc" =>
        /\ codec.crc \in 0..65535
        /\ codec.crc = RefCrc(codec.data)
        /\ codec.data = <<>> => codec.crc = 0
        /\ codec.data = CheckString => codec.crc = 12739

C3_Witness ==
    /\ codec.stage = "crc"
    /\ codec.data = CheckString
    /\ codec.crc = 12739

(***************************************************************************)
(* Claims on the Hardware driver                                           *)
(***************************************************************************)
Done(op) == call.op = op

\* the payload of a reply (all but its last two bytes)
PayloadOf(resp) == SubSeq(resp, 1, Len(resp) - 2)

\* resp ends in the big-endian CRC16 of [addr, cmd] ++ payload
CrcValid(resp, addr, cmd) ==
    /\ Len(resp) >= 3
    /\ (resp[Len(resp) - 1] * 256) + resp[Len(resp)]
         = calc_crc(<<addr, cmd>> \o PayloadOf(resp))

\* req is [addr, cmd, ...fields] followed by the big-endian CRC16 of those bytes
EndsInCrc(req, addr, cmd) ==
    /\ Len(req) >= 4
    /\ req[1] = addr
    /\ req[2] = cmd
    /\ <<req[Len(req) - 1], req[Len(req)]>> = CrcBytes(calc_crc(SubSeq(req, 1, Len(req) - 2)))

\* C4 as stated: no Hardware-mode Driver operation returns success on a response
\* whose trailing CRC does not match calc_crc([addr, cmd] ++ payload).
C4_Original ==
    (~Idle /\ call.result.tag = "Ok") => CrcValid(call.resp, ROBOCLAW.addr, call.cmd)

\* C4 amended: every Hardware-mode Driver operation other than Drive and Drive PWM
\* returns success only on a response whose trailing CRC matches
\* calc_crc([addr, cmd] ++ payload); Drive and Drive PWM do not validate the
\* response: they return success exactly when its first byte is 0xFF.
C4_SuccessOnlyOnValidCrc ==
    ~Idle =>
        IF call.op \in {"drive_simply", "drive_pwm"}
        THEN (call.result.tag = "Ok") <=> (Len(call.resp) >= 1 /\ call.resp[1] = 255)
        ELSE (call.result.tag = "Ok") => CrcValid(call.resp, ROBOCLAW.addr, call.cmd)

C4_Witness ==
    /\ Done("reset_encoder")
    /\ call.result.tag = "Ok"
    /\ call.resp = Frame(128, 20, <<255>>)

EchoedVelocity ==
    /\ Done("read_velocity_pid")
    /\ device.vel # <<>>
    /\ call.resp = Frame(ROBOCLAW.addr, call.cmd, device.vel)

EchoedPosition ==
    /\ Done("read_position_pid")
    /\ device.pos # <<>>
    /\ call.resp = Frame(ROBOCLAW.addr, call.cmd, device.pos)

\* C6 as stated: the field bytes written by set_velocity_pid / set_position_pid,
\* returned as the reply payload and decoded by read_velocity_pid /
\* read_position_pid, give back the same value in every named field.
C6_Original ==
    /\ EchoedVelocity => call.result = Ok(device.vel_params)
    /\ EchoedPosition => call.result = Ok(device.pos_params)

\* C6 amended: every 32-bit word written by set_velocity_pid / set_position_pid is
\* decoded bit-exactly by read_velocity_pid / read_position_pid; QPPS, MaxI,
\* Deadzone, Min and Max come back in their own field, and the first three words,
\* written in the order D, P, I and decoded in the order P, I, D, come back
\* rotated: the P read is the D written, the I read the P written, the D read
\* the I written.
C6_PidRoundTrip ==
    /\ EchoedVelocity =>
         /\ call.result.tag = "Ok"
         /\ call.result.val.p = device.vel_params.d
         /\ call.result.val.i = device.vel_params.p
         /\ call.result.val.d = device.vel_params.i
         /\ call.result.val.qpps = device.vel_params.qpps
    /\ EchoedPosition =>
         /\ call.result.tag = "Ok"
         /\ call.result.val.p = device.pos_params.d
         /\ call.result.val.i = device.pos_params.p
         /\ call.result.val.d = device.pos_params.i
         /\ call.result.val.max_i = device.pos_params.max_i
         /\ call.result.val.deadzone = device.pos_params.deadzone
         /\ call.result.val.min = device.pos_params.min
         /\ call.result.val.max = device.pos_params.max

C6_Witness ==
    /\ EchoedPosition
    /\ device.pos_params.d = I32Min
    /\ call.result.tag = "Ok"
    /\ call.result.val.p = I32Min
    /\ call.result.val.min = 16777216

\* word k (1-based) of a payload of big-endian i32
Word(payload, k) == i32_from_be_bytes(payload, (4 * k) - 3)

\* C7 as stated: read_velocity_pid takes the reply words in the order D, P, I,
\* QPPS and read_position_pid in the order D, P, I, MaxI, Deadzone, Min, Max.
C7_Original ==
    /\ (Done("read_velocity_pid") /\ call.result.tag = "Ok") =>
         /\ call.result.val.d = Word(PayloadOf(call.resp), 1)
         /\ call.result.val.p = Word(PayloadOf(call.resp), 2)
         /\ call.result.val.i = Word(PayloadOf(call.resp), 3)
         /\ call.result.val.qpps = Word(PayloadOf(call.resp), 4)
    /\ (Done("read_position_pid") /\ call.result.tag = "Ok") =>
         /\ call.result.val.d = Word(PayloadOf(call.resp), 1)
         /\ call.result.val.p = Word(PayloadOf(call.resp), 2)
         /\ call.result.val.i = Word(PayloadOf(call.resp), 3)
         /\ call.result.val.max_i = Word(PayloadOf(call.resp), 4)
         /\ call.result.val.deadzone = Word(PayloadOf(call.resp), 5)
         /\ call.result.val.min = Word(PayloadOf(call.resp), 6)
         /\ call.result.val.max = Word(PayloadOf(call.resp), 7)

\* C7 amended: read_velocity_pid takes the four big-endian i32 of the reply in the
\* order P, I, D, QPPS, and read_position_pid the seven in the order P, I, D,
\* MaxI, Deadzone, Min, Max (the first reply word is P, the second I, the third D).
C7_ReadWordOrder ==
    /\ (Done("read_velocity_pid") /\ call.result.tag = "Ok") =>
         /\ call.result.val.p = Word(PayloadOf(call.resp), 1)
         /\ call.result.val.i = Word(PayloadOf(call.resp), 2)
         /\ call.result.val.d = Word(PayloadOf(call.resp), 3)
         /\ call.result.val.qpps = Word(PayloadOf(call.resp), 4)
    /\ (Done("read_position_pid") /\ call.result.tag = "Ok") =>
         /\ call.result.val.p = Word(PayloadOf(call.resp), 1)
         /\ call.result.val.i = Word(PayloadOf(call.resp), 2)
         /\ call.result.val.d = Word(PayloadOf(call.resp), 3)
         /\ call.result.val.max_i = Word(PayloadOf(call.resp), 4)
         /\ call.result.val.deadzone = Word(PayloadOf(call.resp), 5)
         /\ call.result.val.min = Word(PayloadOf(call.resp), 6)
         /\ call.result.val.max = Word(PayloadOf(call.resp), 7)

C7_Witness ==
    /\ Done("read_velocity_pid")
    /\ call.result.tag = "Ok"
    /\ PayloadOf(call.resp) = <<0, 0, 64, 0, 0, 1, 0, 0, 0, 0, 128, 0, 0, 0, 171, 224>>
    /\ call.result.val = [p |-> 16384, i |-> 65536, d |-> 32768, qpps |-> 44000]

\* C8: the request written by set_velocity_pid is exactly [addr, 28 (motor 1) or
\* 29 (motor 2), D, P, I, QPPS as big-endian i32, crc high, crc low], and the one
\* written by set_position_pid exactly [addr, 61 or 62, D, P, I, MaxI, Deadzone,
\* Min, Max as big-endian i32, crc high, crc low], the CRC being calc_crc of all
\* preceding bytes.
C8_SetPidRequest ==
    /\ (Done("set_velocity_pid") /\ call.wrote) =>
         /\ Len(call.req) = 20
         /\ call.req[1] = ROBOCLAW.addr
         /\ call.motor = 1 => call.req[2] = 28
         /\ call.motor = 2 => call.req[2] = 29
         /\ Word(SubSeq(call.req, 3, 18), 1) = call.args.d
         /\ Word(SubSeq(call.req, 3, 18), 2) = call.args.p
         /\ Word(SubSeq(call.req, 3, 18), 3) = call.args.i
         /\ Word(SubSeq(call.req, 3, 18), 4) = call.args.qpps
         /\ (call.req[19] * 256) + call.req[20] = calc_crc(SubSeq(call.req, 1, 18))
    /\ (Done("set_position_pid") /\ call.wrote) =>
         /\ Len(call.req) = 32
         /\ call.req[1] = ROBOCLAW.addr
         /\ call.motor = 1 => call.req[2] = 61
         /\ call.motor = 2 => call.req[2] = 62
         /\ Word(SubSeq(call.req, 3, 30), 1) = call.args.d
         /\ Word(SubSeq(call.req, 3, 30), 2) = call.args.p
         /\ Word(SubSeq(call.req, 3, 30), 3) = call.args.i
         /\ Word(SubSeq(call.req, 3, 30), 4) = call.args.max_i
         /\ Word(SubSeq(call.req, 3, 30), 5) = call.args.deadzone
         /\ Word(SubSeq(call.req, 3, 30), 6) = call.args.min
         /\ Word(SubSeq(call.req, 3, 30), 7) = call.args.max
         /\ (call.req[31] * 256) + call.req[32] = calc_crc(SubSeq(call.req, 1, 30))

C8_Witness ==
    /\ Done("set_velocity_pid")
    /\ call.motor = 2
    /\ call.wrote
    /\ call.args = [p |-> 65536, i |-> 32768, d |-> 16384, qpps |-> 44000]
    /\ SubSeq(call.req, 1, 18)
         = <<128, 29, 0, 0, 64, 0, 0, 1, 0, 0, 0, 0, 128, 0, 0, 0, 171, 224>>

\* C9: for every byte sequence the channel can return, every Driver operation
\* returns either a value or an error; none aborts (no out-of-bounds access, no
\* panic).
C9_NoAbort == call.result.tag # "Panic"

\* the i32 v is the u32 m = <<hi, lo>>
IsPlus(v, m) == v >= 0 /\ v \div 65536 = m[1] /\ v % 65536 = m[2]

\* the i32 v is minus the u32 m = <<hi, lo>>
IsMinus(v, m) ==
    /\ v <= 0
    /\ IF v = I32Min THEN m = <<32768, 0>> ELSE IsPlus(-v, m)

\* C10: Hardware Read Speed on a CRC-valid reply of a u32 magnitude m and a status
\* byte s returns +m when s = 0, -m when s = 1 and an error for every other s,
\* for every 32-bit magnitude m including m >= 2^31.
C10_ReadSpeedSign ==
    (/\ Done("read_speed")
     /\ CrcValid(call.resp, ROBOCLAW.addr, call.cmd)
     /\ Len(call.resp) = 7) =>
        LET m == u32_from_be(call.resp, 1)
            s == call.resp[5]
        IN  /\ s = 0 => (call.result.tag = "Ok" /\ IsPlus(call.result.val[1], m))
            /\ s = 1 => (call.result.tag = "Ok" /\ IsMinus(call.result.val[1], m))
            /\ s \notin {0, 1} => call.result.tag = "Err"

(***************************************************************************)
(* Claims about the threads                                                *)
(***************************************************************************)
\* the threads inside a Driver operation that exchanges with the controller
InDriverOp(t) == thread[t].op \notin {"none", "configure_port", "configure_baud"}

\* C11: send_and_read does no channel I/O and returns an error when the handle has
\* no open channel; it does not read when the write fails; otherwise it makes
\* exactly one write, then exactly one read; a read of zero bytes gives the timeout
\* error, a failed read a different error.
C11_SendAndRead ==
    \A t \in Threads :
        LET th == thread[t]
        IN  /\ th.sent = "absent" =>
                 /\ th.n_write = 0 /\ th.n_read = 0
                 /\ th.pc = "done" /\ th.result.tag = "Err"
            /\ th.sent = "failed" =>
                 /\ th.n_write = 1 /\ th.n_read = 0
                 /\ th.pc = "done" /\ th.result.tag = "Err"
            /\ th.sent = "ok" =>
                 /\ th.n_write = 1
                 /\ th.pc = "read" => th.n_read = 0
                 /\ th.pc = "done" => th.n_read = 1 /\ th.got # "none"
            /\ th.n_read > 0 => th.sent = "ok"
            /\ th.got = "zero" => th.result = Err("No data received (timeout)")
            /\ th.got = "error" =>
                 /\ th.result.tag = "Err"
                 /\ th.result.msg # "No data received (timeout)"

\* an exchange that wrote its request and whose read timed out
C11_Witness ==
    \E t \in Threads :
        /\ thread[t].pc = "done" /\ thread[t].sent = "ok" /\ thread[t].got = "zero"
        /\ thread[t].n_write = 1 /\ thread[t].n_read = 1

ConfigurePortReturns(t) ==
    /\ thread[t].op = "configure_port" /\ thread[t].pc # "done"
    /\ thread'[t].pc = "done"

\* C13 as stated: when a configure_port call returns, with success or with an
\* error, the flag is Simulated exactly if the port name was "SIMULATED"; with that
\* name the call succeeds and the handle has no open channel.
C13_Original ==
    [][\A t \in Threads :
          ConfigurePortReturns(t) =>
              /\ SIMULATION_ENABLED' <=> (thread[t].args.value = "SIMULATED")
              /\ thread[t].args.value = "SIMULATED" =>
                   /\ thread'[t].result.tag = "Ok"
                   /\ ~ROBOCLAW'.port]_vars

\* C13: a configure_port call that acquired the ROBOCLAW lock stored Simulated to the
\* flag exactly if the port name was "SIMULATED", and with that name it succeeded
\* and left the handle without a channel; a call that could not acquire the lock
\* returned that error and stored nothing.
C13_ConfigurePortStores ==
    \A t \in Threads :
        (thread[t].op = "configure_port" /\ thread[t].pc = "done") =>
            IF thread[t].stored = "none"
            THEN /\ thread[t].result = Err("Failed to acquire lock")
                 /\ ROBOCLAW.poisoned
            ELSE /\ thread[t].stored = "Simulated" <=> (thread[t].args.value = "SIMULATED")
                 /\ thread[t].args.value = "SIMULATED" =>
                      /\ thread[t].result.tag = "Ok"
                      /\ ~ROBOCLAW.port

\* configure_port("SIMULATED") has returned Ok
C13_Witness ==
    \E t \in Threads :
        /\ thread[t].op = "configure_port" /\ thread[t].pc = "done"
        /\ thread[t].args.value = "SIMULATED"
        /\ thread[t].stored = "Simulated" /\ thread[t].result.tag = "Ok"
        /\ SIMULATION_ENABLED /\ ~ROBOCLAW.port

\* C14: no write or read of one operation falls between the write and the read of
\* another; a thread writes and reads only while it holds the ROBOCLAW lock, makes
\* one exchange under it and has released it when the operation returns.
C14_ExchangesNotInterleaved ==
    /\ ~wire.interleaved
    /\ wire.exchange # 0 => lock.roboclaw = wire.exchange
    /\ \A t \in Threads :
         /\ thread[t].pc \in {"write", "read"} => lock.roboclaw = t
         /\ thread[t].n_write <= 1 /\ thread[t].n_read <= 1
         /\ thread[t].pc \in {"idle", "entry", "lock", "done"} => lock.roboclaw # t

\* one thread is between its write and its read while the other waits for the lock
C14_Witness ==
    \E t, u \in Threads :
        /\ t # u
        /\ thread[t].pc = "read" /\ wire.exchange = t
        /\ thread[u].pc = "lock" /\ thread[u].flag = "Hardware"

\* C15: no thread holds the ROBOCLAW lock and the SIM_STATE lock at the same time.
C15_NeverBothLocks == \A t \in Threads : ~(lock.roboclaw = t /\ lock.sim = t)

\* both locks are held, by different threads
C15_Witness == lock.roboclaw # 0 /\ lock.sim # 0

\* C16: no experiment sleeps while it holds the ROBOCLAW lock or the SIM_STATE lock.
C16_NoSleepUnderLock ==
    \A t \in Threads : thread[t].at \in SleepLabels => Holds(t) = {}

\* C17: an experiment in which a lock acquisition failed returns an error.
C17_LockFailurePropagates ==
    \A t \in Threads :
        (thread[t].at = "finished" /\ thread[t].lock_failed) => thread[t].exp_result.tag = "Err"

\* C18: an experiment in which a velocity or encoder read failed does not return
\* success.
C18_FailedReadNotASample ==
    \A t \in Threads :
        (thread[t].at = "finished" /\ thread[t].read_failed) => thread[t].exp_result.tag # "Ok"

\* the operations that take a motor index
TakesMotor ==
    {"drive_simply", "drive_pwm", "read_speed", "read_position_pid", "set_position_pid",
     "read_velocity_pid", "set_velocity_pid"}

\* C19: every Driver operation that takes a motor index returns an error, changes
\* no state and sends no request when the index is neither 1 nor 2; an unsupported
\* index is never treated as motor 2 and never reported as success.
C19_UnsupportedMotorRejected ==
    (call.op \in TakesMotor /\ call.motor \notin {1, 2}) =>
        /\ call.result.tag = "Err"
        /\ ~call.wrote

\* C20: the open-loop command that takes effect is min(speed, 127) and the PWM duty
\* that takes effect is within [-32767, 32767] in both backends: the values stored
\* in Simulation State are always within those ranges.
C20_StoredCommandsClamped ==
    /\ SIM_STATE.m1_speed \in 0..127
    /\ SIM_STATE.m2_speed \in 0..127
    /\ SIM_STATE.m1_pwm \in -32767..32767
    /\ SIM_STATE.m2_pwm \in -32767..32767


\* the step at which measure_qpps returns on thread t, with a value or an error
MqReturns(t) ==
    /\ thread[t].at # "finished"
    /\ thread'[t].at = "finished"
    /\ thread'[t].exp = "measure_qpps"

\* C21: measure_qpps returns a result only when duration_ms >= 200 and at least two
\* encoder samples were collected; with duration_ms < 200 it returns an error
\* straight away, before any command is sent and without a change of Simulation
\* State; with fewer than two samples it returns an error.
C21_MeasureQppsPreconditions ==
    [][\A t \in Threads : MqReturns(t) =>
          LET d == thread'[t].saved.value
              r == thread'[t].exp_result
              n == thread'[t].samples
          IN  /\ r.tag = "Ok" => (d >= 200 /\ n >= 2)
              /\ d < 200 => /\ r = Err("duration_ms must be >= 200")
                            /\ IdleThread(t)
                            /\ UNCHANGED <<SIM_STATE, wire, device, lock, ROBOCLAW>>
              /\ n < 2 => r.tag = "Err"]_vars

C21_Witness ==
    \E t \in Threads :
        /\ thread[t].at = "finished" /\ thread[t].exp = "measure_qpps"
        /\ thread[t].saved.value >= 200
        /\ thread[t].samples = 1
        /\ thread[t].read_failed
        /\ thread[t].exp_result = Err("Not enough encoder samples")


\* C23: whenever measure_qpps has commanded full PWM on a motor, that motor's PWM
\* command on the backend it drove is 0 by the time measure_qpps returns, with a
\* value or with an error.
C23_PwmOffAtReturn ==
    [][\A t \in Threads : MqReturns(t) =>
          /\ ~thread'[t].saved.hw_on
          /\ thread'[t].saved.sim_on => SIM_STATE'.m1_pwm = 0]_vars


\* C22: the reported qpps is the median of the per-interval rates; for every series
\* of collected encoder samples, replacing the delta of one interval by an
\* arbitrary outlier does not change the reported value.
C22_Original ==
    codec.stage = "replaced" => codec.qpps_replaced = codec.qpps

\* C22 (amended): the reported qpps is the rate of rank len/2 (from 0) among the
\* per-interval rates in ascending order; replacing the delta of one interval by
\* an arbitrary value moves the reported value by one rank at most: it is not
\* below the rate ranked just under the reported one and not above the rate
\* ranked just over it, where the original series has such a rate.
C22_MedianMovesOneRank ==
    codec.stage \in {"reported", "replaced"} =>
        LET s == sort(qpps_samples(codec.encoder_samples))
            n == Len(s)
            k == (n \div 2) + 1
        IN  /\ codec.qpps = s[k]
            /\ \A i \in 1..(n - 1) : s[i] <= s[i + 1]
            /\ Cardinality({i \in 1..n : s[i] < codec.qpps}) <= n \div 2
            /\ Cardinality({i \in 1..n : s[i] > codec.qpps}) <= (n - 1) \div 2
            /\ codec.stage = "replaced" =>
                 /\ k > 1 => codec.qpps_replaced >= s[k - 1]
                 /\ k < n => codec.qpps_replaced <= s[k + 1]

C22_Witness ==
    /\ codec.stage = "replaced"
    /\ Len(codec.encoder_samples) = 4
    /\ codec.qpps = 40
    /\ codec.qpps_replaced = 50
    /\ codec.replaced # codec.encoder_samples


\* C24: from rest in PWM mode, for every duty, gain and time constant tau, once the
\* simulated time accumulated by updates has reached 5 * tau the velocity is within
\* 1% of gain * duty / 32767, and it stays there under further updates.
C24_SettlesWithinFiveTau ==
    (call.elapsed >= 0 /\ call.elapsed >= 5 * SIM_STATE.tau_m1 /\ SIM_STATE.m1_mode_pwm) =>
        100 * Abs(SIM_STATE.m1_vel - pwm_target(SIM_STATE)) <= Abs(pwm_target(SIM_STATE))


\* the velocities of the sub-steps of the last update, and the pulses they add up to
LastVels == call.vels
LastPulses == call.pulses
LastUpdated == call.op \in {"drive_pwm", "read_speed"}

\* the high limb of a + n before it is reduced to 16 bits, and a + n modulo 2^64
HighSum(a, n) == a[1] + ((a[2] + ((a[3] + n) \div 16777216)) \div 16777216)
SumMod64(a, n) ==
    I64(((HighSum(a, n) + 32768) % 65536) - 32768,
        (a[2] + ((a[3] + n) \div 16777216)) % 16777216,
        (a[3] + n) % 16777216)

\* C26: the encoder count never decreases during an update in which the velocity
\* is non-negative and never increases during an update in which the velocity is
\* non-positive.
C26_Original ==
    LastUpdated =>
        /\ (\A k \in 1..Len(LastVels) : LastVels[k] >= 0) =>
              ~I64Less(SIM_STATE.m1_encoder, call.before.m1_encoder)
        /\ (\A k \in 1..Len(LastVels) : LastVels[k] <= 0) =>
              ~I64Less(call.before.m1_encoder, SIM_STATE.m1_encoder)

\* C26 (amended): an update adds to the encoder count, modulo 2^64, the pulses of
\* its sub-steps; when the velocity is non-negative after every sub-step the
\* pulses are non-negative, and the count does not decrease unless the sum leaves
\* the i64 range and wraps; likewise with non-positive velocities and increase.
C26_EncoderFollowsVelocity ==
    LastUpdated =>
        /\ SIM_STATE.m1_encoder = SumMod64(call.before.m1_encoder, LastPulses)
        /\ (\A k \in 1..Len(LastVels) : LastVels[k] >= 0) =>
              /\ LastPulses >= 0
              /\ HighSum(call.before.m1_encoder, LastPulses) <= 32767 =>
                    ~I64Less(SIM_STATE.m1_encoder, call.before.m1_encoder)
        /\ (\A k \in 1..Len(LastVels) : LastVels[k] <= 0) =>
              /\ LastPulses <= 0
              /\ HighSum(call.before.m1_encoder, LastPulses) >= -32768 =>
                    ~I64Less(call.before.m1_encoder, SIM_STATE.m1_encoder)

C26_Witness ==
    /\ call.op = "read_speed"
    /\ LastVels # <<>>
    /\ \A k \in 1..Len(LastVels) : LastVels[k] >= 0
    /\ LastPulses > 0
    /\ HighSum(call.before.m1_encoder, LastPulses) > 32767
    /\ SIM_STATE.m1_encoder = I64(-32768, 0, LastPulses - 16)


\* the setpoint velocity of the speed byte: ((speed - 64) / 63) * qpps
Setpoint(sim) == MulDiv(Pps(sim.m1_velocity_pid.qpps), sim.m1_speed - 64, 63)

Estimated == codec.stage = "estimated"
GivenStep ==
    {i \in 1..Len(codec.samples) : Abs(codec.samples[i].cmd - codec.samples[1].cmd) > 5}
GivenTail == {i \in 1..Len(codec.samples) : 5 * i > 4 * Len(codec.samples)}
GivenTailVel == SumOf([i \in GivenTail |-> codec.samples[i].vel], GivenTail)
GivenTailCmd == SumOf([i \in GivenTail |-> codec.samples[i].cmd], GivenTail)
GivenPost == {i \in 1..Len(codec.samples) : \E j \in GivenStep : j <= i}
GivenUsable ==
    {i \in GivenPost : codec.samples[i].vel * Cardinality(GivenTail) # GivenTailVel}
GivenWellFormed ==
    /\ Len(codec.samples) >= 5
    /\ GivenStep # {}
    /\ GivenTailCmd # Cardinality(GivenTail) * codec.samples[1].cmd

\* C27: the step estimator returns an error when there are fewer than 5 samples,
\* when no sample's command differs from the first by more than 0.5, when the
\* steady-state command differs from the initial one by less than 1e-6, and when
\* the regression is attempted on usable points that are all at the same time.
C27_StepEstimatorErrors ==
    Estimated =>
        /\ Len(codec.samples) < 5 => codec.out.tag = "Err"
        /\ GivenStep = {} => codec.out.tag = "Err"
        /\ GivenTailCmd = Cardinality(GivenTail) * codec.samples[1].cmd => codec.out.tag = "Err"
        /\ ( /\ Cardinality(GivenUsable) >= 3
             /\ \A i \in GivenUsable, j \in GivenUsable :
                   codec.samples[i].t_ms = codec.samples[j].t_ms ) => codec.out.tag = "Err"

C27_Witness ==
    /\ Estimated
    /\ GivenWellFormed
    /\ Cardinality(GivenUsable) >= 3
    /\ \A i \in GivenUsable, j \in GivenUsable : codec.samples[i].t_ms = codec.samples[j].t_ms
    /\ codec.out = Err("Regression failed (denominator zero)")

\* the baseline y0 as the fraction GivenBaseVel / GivenBaseCount, and the sign of
\* sample i's velocity minus y0 + 0.632 * (y_inf - y0), times a positive factor
GivenFirstStep == CHOOSE i \in GivenStep : \A j \in GivenStep : i <= j
GivenBaseCount == IF GivenFirstStep = 1 THEN 1 ELSE GivenFirstStep - 1
GivenBaseVel ==
    IF GivenFirstStep = 1 THEN codec.samples[1].vel
    ELSE SumOf([i \in 1..(GivenFirstStep - 1) |-> codec.samples[i].vel], 1..(GivenFirstStep - 1))
GivenRise == GivenTailVel * GivenBaseCount - GivenBaseVel * Cardinality(GivenTail)
Above632(i) ==
    1000 * Cardinality(GivenTail) * (codec.samples[i].vel * GivenBaseCount - GivenBaseVel)
        - 632 * GivenRise
\* the samples that reached 63.2% of the rise, and those within 0.001 of that level
GivenReached ==
    {i \in GivenPost : \/ GivenRise > 0 /\ Above632(i) >= 0
                       \/ GivenRise < 0 /\ Above632(i) <= 0
                       \/ GivenRise = 0 /\ Above632(i) = 0}
GivenNear ==
    {i \in GivenPost : Abs(Above632(i)) <= 10000 * Cardinality(GivenTail) * GivenBaseCount}
\* the answer of the heuristic on the set hit of samples: the time from the step to
\* the first of them in tau_s and no r2, an error when there is none
HeuristicAnswer(hit) ==
    IF hit = {} THEN codec.out.tag = "Err"
    ELSE /\ codec.out.tag = "Ok"
         /\ ~codec.out.val.fit
         /\ codec.out.val.tau_s =
               10 * (codec.samples[CHOOSE i \in hit : \A j \in hit : i <= j].t_ms
                       - codec.samples[GivenFirstStep].t_ms)

\* C28: when fewer than 3 samples from the step on have |y - y_inf| >= 1e-6 the
\* estimator runs no regression: it returns as tau the time from the step to the
\* first such sample that reached 63.2% of the rise, with no r2 field, and an
\* error when no sample reaches it.
C28_Original ==
    (Estimated /\ GivenWellFormed /\ Cardinality(GivenUsable) < 3) =>
        HeuristicAnswer(GivenReached)

\* C28 (amended): as C28, where a sample counts as having reached 63.2% of the
\* rise also when its velocity is within 0.001 of that level.
C28_HeuristicWithTolerance ==
    (Estimated /\ GivenWellFormed /\ Cardinality(GivenUsable) < 3) =>
        HeuristicAnswer(GivenReached \cup GivenNear)

C28_Witness ==
    /\ Estimated /\ GivenWellFormed
    /\ Cardinality(GivenUsable) = 2
    /\ GivenNear \ GivenReached # {}
    /\ codec.out.tag = "Ok"
    /\ ~codec.out.val.fit
    /\ codec.out.val.tau_s = 1000

\* C29: for a first-order step response sampled over [0, 5 tau] the estimator
\* returns K and tau within 2% of the plant's and r2 > 0.98.
C29_SyntheticRecovered ==
    (Estimated /\ codec.truth.synthetic) =>
        /\ codec.out.tag = "Ok"
        /\ codec.out.val.fit
        /\ Abs(10 * codec.out.val.K[1] - codec.truth.rise * codec.out.val.K[2])
              <= Abs(codec.truth.rise * codec.out.val.K[2]) \div 50
        /\ 50 * Abs(codec.out.val.tau_s - 10 * codec.truth.tau_ms) <= 10 * codec.truth.tau_ms
        /\ codec.out.val.r2 > 9800


\* C30: an autotuning run with apply_result = false never issues a Velocity PID
\* write to the Driver, whatever the experiment ends with: no set_velocity_pid
\* call, no request with command 28 or 29, and the Velocity PID stored by the
\* simulation and by the controller stay as they were.
C30_NoWriteUnlessApply ==
    ~codec.request.apply_result =>
        /\ call.op # "set_velocity_pid"
        /\ call.cmd \notin {28, 29}
        /\ call.req = <<>>
        /\ device = DeviceInit
        /\ SIM_STATE.m1_velocity_pid = AutotuneSimInit.m1_velocity_pid
        /\ SIM_STATE.m2_velocity_pid = AutotuneSimInit.m2_velocity_pid

C30_Witness ==
    /\ codec.stage = "returned"
    /\ ~codec.request.apply_result
    /\ codec.out.tag = "Ok"
    /\ codec.out.val.gains.p = 4000
    /\ ~codec.out.val.applied


\* what the physics of an update works on: velocity, encoder count, PID integrator
\* and last error
Physics(sim) == <<sim.m1_vel, sim.m1_encoder, sim.m1_vi, sim.m1_v_last_err>>

\* C31: an update steps by the elapsed time clamped to [0, 200 ms] (an elapsed time
\* above 200 ms gives what 200 ms gives), and with no previous timestamp or a
\* clamped elapsed time of at most 1 microsecond it sets the timestamp and leaves
\* velocity, encoder count, PID integrator and last error as they were.
C31_ClampedStepOrTimestampOnly ==
    [][ /\ (~SIM_STATE.last_update \/ 100 * codec'.raw_dt <= 1) =>
              /\ Physics(SIM_STATE') = Physics(SIM_STATE)
              /\ Physics(codec'.sim) = Physics(codec.sim)
              /\ SIM_STATE'.last_update
        /\ codec'.raw_dt >= Ms(200) =>
              Physics(SIM_STATE') = Physics(sim_update(SIM_STATE, Ms(200))) ]_vars

C31_Witness ==
    /\ codec.updates >= 3
    /\ codec.raw_dt = 0
    /\ SIM_STATE.last_update
    /\ SIM_STATE.m1_vel # 0
    /\ SIM_STATE.m1_vi # 0
    /\ SIM_STATE.m1_v_last_err # 0
    /\ SIM_STATE.m1_encoder # I64(0, 0, 0)


\* the sub-step of the last update, the whole pulses of each of its sub-steps added
\* up, and the whole pulses and the thousandths of a pulse its sub-steps lose
LastSubDt ==
    LET dt == Min(call.raw_dt, Ms(200))
    IN  IF dt = 0 THEN 0 ELSE dt \div ((dt + Ms(10) - 1) \div Ms(10))
WholePulses(vel) ==
    IF vel < 0 THEN -((-vel * LastSubDt) \div 10000000) ELSE (vel * LastSubDt) \div 10000000
RECURSIVE Truncated(_)
Truncated(vels) ==
    IF vels = <<>> THEN 0 ELSE WholePulses(Head(vels)) + Truncated(Tail(vels))
RECURSIVE Lost(_)
Lost(vels) ==
    IF vels = <<>> THEN 0
    ELSE ((Abs(Head(vels)) * LastSubDt) % 10000000) \div 10000 + Lost(Tail(vels))

\* C32: a sub-step adds to the encoder count velocity * sub_dt truncated toward
\* zero and carries no remainder: an update all of whose sub-steps have
\* |velocity * sub_dt| < 1 leaves the count as it was, however many there are.
C32_FractionalPulsesLost ==
    LastUpdated =>
        /\ (\A k \in 1..Len(LastVels) : Abs(LastVels[k]) * LastSubDt < 10000000) =>
              SIM_STATE.m1_encoder = call.before.m1_encoder
        /\ SIM_STATE.m1_encoder = SumMod64(call.before.m1_encoder, Truncated(LastVels))

C32_Witness ==
    /\ call.op = "read_speed"
    /\ SIM_STATE.gain_m1 = 100
    /\ SIM_STATE.m1_pwm = -32767
    /\ call.elapsed >= Ms(400)
    /\ Abs(SIM_STATE.m1_vel) > Pps(95)
    /\ Len(LastVels) = 20
    /\ Lost(LastVels) > 18000
    /\ SIM_STATE.m1_encoder = I64(0, 0, 0)


\* C33: in speed mode the simulation step of lib.rs and the one of sim.rs give the
\* same velocity after the same commands and elapsed times, both taking the
\* actuator command from the velocity PID on ((speed - 64) / 63) * qpps.
C33_LibStepAsSimStep ==
    /\ codec.sim.m1_vel = SIM_STATE.m1_vel
    /\ read_speed_sim(codec.sim) = read_speed_sim(SIM_STATE)


\* the device step response returns; its step command has reached the controller;
\* its last call was the final stop and that one reached the controller
SdReturns(t) ==
    /\ thread[t].at # "finished"
    /\ thread'[t].at = "finished"
    /\ thread'[t].exp = "step_device"
SdStepSent(t) == thread[t].applied \/ (thread[t].at = "sd_apply" /\ thread[t].sent = "ok")
SdStopSent(t) == thread[t].at = "sd_end" /\ thread[t].sent = "ok"

\* C34: once the device step response has sent the step command, it returns, with
\* its samples or with an error, only after sending the stop command (speed 64).
C34_StopBeforeReturn ==
    [][\A t \in Threads : (SdReturns(t) /\ SdStepSent(t)) => SdStopSent(t)]_vars


\* C35: in Simulated mode the encoder count is 0 when Reset Encoder has returned,
\* and a read_all_status right after the reset reports the count 0.
C35_ResetZeroesEncoder ==
    /\ codec.last = "reset_encoder" => SIM_STATE.m1_encoder = I64(0, 0, 0)
    /\ (codec.last = "read_all_status" /\ codec.prev = "reset_encoder") =>
          codec.m1_encoder = I64(0, 0, 0)

\* C36: in Simulated mode, from the return of Reset Encoder until the next drive
\* command the simulated velocity is 0, through every update.
C36_RestAfterReset == codec.since_reset => SIM_STATE.m1_vel = 0


\* C37: whenever the Controller Handle has an open channel, the port name and the
\* baud rate it records are the ones that channel was opened with.
C37_RecordedAsOpened ==
    ROBOCLAW.port => codec.channel = Channel(ROBOCLAW.port_name, ROBOCLAW.baud_rate)


\* thread t is inside a Driver operation or an experiment; its call has returned
Invoked(t) == ~IdleThread(t)
Returned(t) ==
    IF thread[t].exp = "none" THEN thread[t].pc \in {"done", "idle"}
    ELSE thread[t].at = "finished"

\* thread t is in Mutex::lock()
Locking(t) == thread[t].pc = "lock" \/ thread[t].at \in {"mq_sim_lock", "sr_lock"}

MqCallOnSimulation(t) ==
    /\ thread[t].exp = "measure_qpps"
    /\ thread[t].at \in {"mq_hw_read", "mq_hw_off"}
    /\ thread[t].saved.hw_on
    /\ thread[t].pc \in {"sim_body", "done"}
    /\ thread[t].flag = "Simulated"

\* C39: a measure_qpps run that sent full PWM to the hardware takes none of its
\* encoder samples from, and does not send its final PWM 0 to, the Simulation State.
C39_OneBackendPerRun == \A t \in Threads : ~MqCallOnSimulation(t)

\* C40: in Hardware mode the bytes of a response that an exchange returns to its
\* caller and the caller accepts were all sent in reply to that exchange's request.
C40_OwnReplyOnly ==
    call.result.tag = "Ok" => codec.read \subseteq {wire.exchange}

=============================================================================
